---- MODULE Spec2Model ----
(***************************************************************************)
(* k-NCL (k-Nearest Common Leaves): completion of two phylogenetic trees   *)
(* defined on overlapping leaf sets, and the branch-score distance BSD(+)  *)
(* of the two completed trees.                                             *)
(*                                                                         *)
(* The repository describes the algorithm in algorithm.md (Steps 1-5);     *)
(* kncl.py itself is not among the sources, so the error taxonomy, the     *)
(* arena tree model, the root clamp and the canonical orders follow the    *)
(* design document.  Branch lengths are exact rationals <<num, den>>.      *)
(***************************************************************************)
EXTENDS Integers, Sequences, FiniteSets, TLC

(* ------------------------------ bounds -------------------------------- *)
\* k is drawn from 1..MaxK
MaxK == 3
\* every input tree is taken with its branch lengths multiplied by 1..MaxStretch
MaxStretch == 2

(* ----------------------------- rationals ------------------------------ *)
Abs(n) == IF n < 0 THEN -n ELSE n

RECURSIVE Gcd(_, _)
Gcd(a, b) == IF b = 0 THEN a ELSE Gcd(b, a % b)

\* the rational n/d (d > 0) in lowest terms
Norm(n, d) == LET g == Gcd(Abs(n), d) IN <<n \div g, d \div g>>

Zero == <<0, 1>>
One == <<1, 1>>
\* sum and product are formed over the least common denominator and after
\* cancelling, which keeps the intermediate integers small
RAdd(x, y) ==
    LET g == Gcd(x[2], y[2])
    IN Norm(x[1] * (y[2] \div g) + y[1] * (x[2] \div g), (x[2] \div g) * y[2])
RNeg(x) == <<-x[1], x[2]>>
RSub(x, y) == RAdd(x, RNeg(y))
RMul(x, y) ==
    LET g1 == Gcd(Abs(x[1]), y[2])
        g2 == Gcd(Abs(y[1]), x[2])
    IN IF x[1] = 0 \/ y[1] = 0 THEN <<0, 1>>
       ELSE <<(x[1] \div g1) * (y[1] \div g2), (x[2] \div g2) * (y[2] \div g1)>>
\* x / y for y > 0
RDiv(x, y) == RMul(x, <<y[2], y[1]>>)
RHalf(x) == Norm(x[1], 2 * x[2])
RLt(x, y) == x[1] * y[2] < y[1] * x[2]
RLe(x, y) == x[1] * y[2] <= y[1] * x[2]
RSq(x) == RMul(x, x)

RECURSIVE RSum(_, _)
\* the sum of f[x] over the finite set S
RSum(f, S) ==
    IF S = {} THEN Zero
    ELSE LET x == CHOOSE y \in S : TRUE IN RAdd(f[x], RSum(f, S \ {x}))

(* ------------------------------- trees -------------------------------- *)
\* A tree is an arena: node i has parent[i] (0 for the root), the branch
\* length len[i] to its parent (0 for the root) and label[i] ("" unless i
\* is a leaf).
NoLabel == ""
EmptyTree == [parent |-> <<>>, len |-> <<>>, label |-> <<>>]

Nodes(T) == 1..Len(T.parent)
Root(T) == CHOOSE n \in Nodes(T) : T.parent[n] = 0
Children(T, n) == {c \in Nodes(T) : T.parent[c] = n}
IsLeaf(T, n) == T.label[n] # NoLabel
Leaves(T) == {T.label[n] : n \in Nodes(T)} \ {NoLabel}
LeafNode(T, l) == CHOOSE n \in Nodes(T) : T.label[n] = l

RECURSIVE Ancestors(_, _)
\* n and every node above it
Ancestors(T, n) ==
    IF T.parent[n] = 0 THEN {n} ELSE {n} \cup Ancestors(T, T.parent[n])

RECURSIVE Depth(_, _)
\* root-to-node path length
Depth(T, n) ==
    IF T.parent[n] = 0 THEN Zero ELSE RAdd(T.len[n], Depth(T, T.parent[n]))

Lca(T, u, v) ==
    LET common == Ancestors(T, u) \cap Ancestors(T, v)
    IN CHOOSE a \in common : \A b \in common : b \in Ancestors(T, a)

\* as NodeDistance, but the part of the two paths above the LCA is not
\* taken off
NodeDistanceFromRoot(T, u, v) == RAdd(Depth(T, u), Depth(T, v))

\* DistanceEngine: depth(u) + depth(v) - 2 depth(lca(u, v))
NodeDistance(T, u, v) ==
    RSub(RAdd(Depth(T, u), Depth(T, v)), RMul(<<2, 1>>, Depth(T, Lca(T, u, v))))

distance(T, l1, l2) == NodeDistance(T, LeafNode(T, l1), LeafNode(T, l2))

\* what a query without an answer returns
NoValue == <<>>

\* DistanceEngine.distance(u, v) for two labels: InvalidLeaf for a label
\* that is not in the tree
DistanceQuery(T, u, v) ==
    IF u \notin Leaves(T) \/ v \notin Leaves(T)
    THEN [error |-> "InvalidLeaf", value |-> NoValue]
    ELSE [error |-> "", value |-> distance(T, u, v)]

\* the sum of the branch lengths on the unique path between nodes u and v
PathLength(T, u, v) ==
    LET onPath == (Ancestors(T, u) \cup Ancestors(T, v))
                    \ (Ancestors(T, u) \cap Ancestors(T, v))
    IN RSum(T.len, onPath)

SubtreeNodes(T, n) == {m \in Nodes(T) : n \in Ancestors(T, m)}
SubtreeLeaves(T, n) == {T.label[m] : m \in SubtreeNodes(T, n)} \ {NoLabel}

(* --------------------------- input trees ------------------------------ *)
\* canonical order of the leaf labels
LabelOrder == <<"A", "B", "C", "D", "E", "F">>
Rank(l) == CHOOSE i \in 1..Len(LabelOrder) : LabelOrder[i] = l

MkTree(par, lens, labs) ==
    [parent |-> par, len |-> [i \in 1..Len(lens) |-> <<lens[i], 1>>], label |-> labs]

\* (A:1,B:2,(C:3,D:4):5);   Scenario A, first tree (lengths in tenths)
TreeS1 == MkTree(<<0, 1, 1, 1, 4, 4>>, <<0, 1, 2, 5, 3, 4>>,
                 <<"", "A", "B", "", "C", "D">>)
\* (E:1,F:2,(C:3,D:4):5);   Scenario A, second tree
TreeS2 == MkTree(<<0, 1, 1, 1, 4, 4>>, <<0, 1, 2, 5, 3, 4>>,
                 <<"", "E", "F", "", "C", "D">>)
\* ((A:2,C:1):1,(B:1,D:3):2);   the leaves of TreeS1 in another topology
TreeS3 == MkTree(<<0, 1, 1, 2, 2, 3, 3>>, <<0, 1, 2, 2, 1, 1, 3>>,
                 <<"", "", "", "A", "C", "B", "D">>)
\* ((E:1,F:2):2,(C:1,(D:2,A:1):3):1);   E and F form a two-leaf subtree
TreeM == MkTree(<<0, 1, 2, 2, 1, 5, 5, 7, 7>>, <<0, 2, 1, 2, 1, 1, 3, 2, 1>>,
                <<"", "", "E", "F", "", "C", "", "D", "A">>)
\* (((A:2,B:1):1,C:4):2,E:1);   a caterpillar
TreeP == MkTree(<<0, 1, 2, 3, 3, 2, 1>>, <<0, 2, 1, 2, 1, 4, 1>>,
                <<"", "", "", "A", "B", "C", "E">>)
\* (E:2,F:1);
TreeD == MkTree(<<0, 1, 1>>, <<0, 2, 1>>, <<"", "E", "F">>)
\* ((C:0,D:0):1,B:2);   the common leaves C and D at distance zero
TreeZ == MkTree(<<0, 1, 2, 2, 1>>, <<0, 1, 0, 0, 2>>, <<"", "", "C", "D", "B">>)
\* ((A:1,C:2):1,(B:2,(E:1,F:3):2):1);
TreeQ == MkTree(<<0, 1, 2, 2, 1, 5, 5, 7, 7>>, <<0, 1, 1, 2, 1, 2, 2, 1, 3>>,
                <<"", "", "A", "C", "", "B", "", "E", "F">>)
\* ((A:1,B:1):1,(C:2,E:1):1);   A and B equally far from E
TreeT == MkTree(<<0, 1, 2, 2, 1, 5, 5>>, <<0, 1, 1, 1, 1, 2, 1>>,
                <<"", "", "A", "B", "", "C", "E">>)

BaseTrees == {TreeS1, TreeS2, TreeS3, TreeM, TreeP, TreeD, TreeZ, TreeQ, TreeT}

Stretch(T, s) == [T EXCEPT !.len = [i \in DOMAIN T.len |-> RMul(T.len[i], <<s, 1>>)]]
InputTrees == {Stretch(T, s) : T \in BaseTrees, s \in 1..MaxStretch}

(* --------------------- Step 1: leaf classification -------------------- *)
CommonLeaves(Ta, Tb) == Leaves(Ta) \cap Leaves(Tb)
\* as DistinctLeaves, but the common leaves are not taken out
DistinctLeavesAll(Ta, Tb) == Leaves(Ta)
DistinctLeaves(Ta, Tb) == Leaves(Ta) \ CommonLeaves(Ta, Tb)

\* as MdsRoot, but without the climb: every distinct leaf is its own element
MdsRootNoClimb(T, DL, n) == n

RECURSIVE MdsRoot(_, _, _)
\* climb from n while the whole subtree of the parent is made of distinct leaves
MdsRoot(T, DL, n) ==
    IF T.parent[n] = 0 THEN n
    ELSE IF SubtreeLeaves(T, T.parent[n]) \subseteq DL THEN MdsRoot(T, DL, T.parent[n])
    ELSE n

\* SD(T): the roots of the maximal distinct-leaf subtrees and the remaining
\* distinct leaves, as nodes of T
SD(T, DL) == {MdsRoot(T, DL, LeafNode(T, l)) : l \in DL}

(* ------------------------ Step 2: adjustment rates -------------------- *)
\* unordered pairs {li, lj}, i < j in the canonical order
LeafPairs(S) == {p \in S \X S : Rank(p[1]) < Rank(p[2])}

\* the sum of the pairwise distances between the leaves of S in T
PairSum(T, S) ==
    LET P == LeafPairs(S)
    IN RSum([p \in P |-> distance(T, p[1], p[2])], P)

\* the sum of the distances from lc to the other leaves of S in T
LeafSum(T, S, lc) ==
    LET O == S \ {lc}
    IN RSum([l \in O |-> distance(T, lc, l)], O)

\* as GlobalRate, but the numerator runs over all leaves of Ta
GlobalRateAllLeaves(Ta, Tb, CL) == RDiv(PairSum(Ta, Leaves(Ta)), PairSum(Tb, CL))

\* r(Ta, Tb)
GlobalRate(Ta, Tb, CL) == RDiv(PairSum(Ta, CL), PairSum(Tb, CL))

\* as LeafRate, but the sums run over all pairs of common leaves: the
\* rate of the whole tree is taken for every leaf
LeafRateGlobal(Ta, Tb, CL, lc) == RDiv(PairSum(Ta, CL), PairSum(Tb, CL))

\* r^(lc)(Ta, Tb)
LeafRate(Ta, Tb, CL, lc) == RDiv(LeafSum(Ta, CL, lc), LeafSum(Tb, CL, lc))

\* as ZeroDenominator, but only the sums of Tb, the denominators of the
\* rates r(Ta, Tb), are looked at
ZeroDenominatorOneWay(Ta, Tb, CL) ==
    \/ PairSum(Tb, CL) = Zero
    \/ \E lc \in CL : LeafSum(Tb, CL, lc) = Zero

\* a denominator of a global or leaf-based rate of the pair is zero
ZeroDenominator(Ta, Tb, CL) ==
    \/ PairSum(Ta, CL) = Zero
    \/ PairSum(Tb, CL) = Zero
    \/ \E lc \in CL : LeafSum(Ta, CL, lc) = Zero \/ LeafSum(Tb, CL, lc) = Zero

NoRates == [g12 |-> Zero, g21 |-> Zero, l12 |-> <<>>, l21 |-> <<>>]

\* as RateCalculator, but only an empty CL counts as insufficient
RateCalculatorEmptyOnly(Ta, Tb, CL) ==
    IF Cardinality(CL) < 1 THEN [error |-> "InsufficientCommonLeaves", rates |-> NoRates]
    ELSE IF ZeroDenominator(Ta, Tb, CL) THEN [error |-> "DegenerateDistance", rates |-> NoRates]
    ELSE [error |-> "",
          rates |-> [g12 |-> GlobalRate(Ta, Tb, CL),
                     g21 |-> GlobalRate(Tb, Ta, CL),
                     l12 |-> [lc \in CL |-> LeafRate(Ta, Tb, CL, lc)],
                     l21 |-> [lc \in CL |-> LeafRate(Tb, Ta, CL, lc)]]]

\* RateCalculator: the rates of the pair, or the error that aborts it
RateCalculator(Ta, Tb, CL) ==
    IF Cardinality(CL) < 2 THEN [error |-> "InsufficientCommonLeaves", rates |-> NoRates]
    ELSE IF ZeroDenominator(Ta, Tb, CL) THEN [error |-> "DegenerateDistance", rates |-> NoRates]
    ELSE [error |-> "",
          rates |-> [g12 |-> GlobalRate(Ta, Tb, CL),
                     g21 |-> GlobalRate(Tb, Ta, CL),
                     l12 |-> [lc \in CL |-> LeafRate(Ta, Tb, CL, lc)],
                     l21 |-> [lc \in CL |-> LeafRate(Tb, Ta, CL, lc)]]]

(* ---------------------- canonical orders ------------------------------ *)
\* a comes before b: smaller key first, equal keys by leaf label
Before(key, a, b) ==
    \/ RLt(key[a], key[b])
    \/ key[a] = key[b] /\ Rank(a) < Rank(b)

RECURSIVE SortBy(_, _)
\* the leaves of S in ascending order of key, ties by leaf label
SortBy(S, key) ==
    IF S = {} THEN <<>>
    ELSE LET m == CHOOSE a \in S : \A b \in S \ {a} : Before(key, a, b)
         IN <<m>> \o SortBy(S \ {m}, key)

RECURSIVE Ascending(_)
\* the numbers of S in ascending order
Ascending(S) ==
    IF S = {} THEN <<>>
    ELSE LET m == CHOOSE a \in S : \A b \in S : a <= b
         IN <<m>> \o Ascending(S \ {m})

Range(q) == {q[i] : i \in 1..Len(q)}

(* ------------------- Step 3: subtree transfer ------------------------- *)
\* as Rescaled, but only the root branch of the element is adjusted
RescaledRootOnly(src, a, rate) ==
    [m \in SubtreeNodes(src, a) |-> IF m = a THEN RMul(src.len[m], rate) ELSE src.len[m]]

\* the branch lengths of the element rooted at a, multiplied by the rate
\* (root branch and every branch inside the subtree)
Rescaled(src, a, rate) ==
    [m \in SubtreeNodes(src, a) |-> RMul(src.len[m], rate)]

\* as Graft, but only the root node of the element is carried over
GraftRootOnly(C, at, src, a, lens) ==
    [parent |-> Append(C.parent, at),
     len |-> Append(C.len, lens[a]),
     label |-> Append(C.label, src.label[a])]

\* C with the element of src rooted at a hung below node at, its nodes
\* appended to the arena in ascending order, with the branch lengths lens
Graft(C, at, src, a, lens) ==
    LET order == Ascending(SubtreeNodes(src, a))
        base == Len(C.parent)
        new(m) == base + (CHOOSE i \in 1..Len(order) : order[i] = m)
    IN [parent |-> C.parent \o [i \in 1..Len(order) |->
                        IF order[i] = a THEN at ELSE new(src.parent[order[i]])],
        len |-> C.len \o [i \in 1..Len(order) |-> lens[order[i]]],
        label |-> C.label \o [i \in 1..Len(order) |-> src.label[order[i]]]]

(* -------------- Step 4: temporary markers and midpoint ---------------- *)
\* A position is a point of a tree: on the branch above node, off away
\* from node towards the parent (off = 0: at the node itself).
RECURSIVE Walk(_, _, _)
\* the point reached from node n after consuming d towards the root;
\* the root when d exceeds the path
Walk(T, n, d) ==
    IF T.parent[n] = 0 THEN [node |-> n, off |-> Zero]
    ELSE IF RLe(T.len[n], d) THEN Walk(T, T.parent[n], RSub(d, T.len[n]))
    ELSE [node |-> n, off |-> d]

PointDepth(T, p) == RSub(Depth(T, p.node), p.off)

\* the branch-length midpoint of the path between the points p and q
Midpoint(T, p, q) ==
    LET dA == Depth(T, Lca(T, p.node, q.node))
        dP == PointDepth(T, p)
        dQ == PointDepth(T, q)
    IN IF RLe(dP, dA) \/ RLe(dQ, dA)
       THEN \* one point lies above the other
            IF RLe(dP, dQ) THEN Walk(T, q.node, RAdd(q.off, RHalf(RSub(dQ, dP))))
            ELSE Walk(T, p.node, RAdd(p.off, RHalf(RSub(dP, dQ))))
       ELSE LET h == RHalf(RAdd(RSub(dP, dA), RSub(dQ, dA)))
            IN IF RLe(dQ, dP) THEN Walk(T, p.node, RAdd(p.off, h))
               ELSE Walk(T, q.node, RAdd(q.off, h))

\* as Reduce, but nothing is merged: the first point is taken
ReduceFirstOnly(T, pts) == pts[1]

RECURSIVE Reduce(_, _)
\* the first two points are replaced by their midpoint until one is left
Reduce(T, pts) ==
    IF Len(pts) = 1 THEN pts[1]
    ELSE Reduce(T, <<Midpoint(T, pts[1], pts[2])>> \o Tail(Tail(pts)))

\* the distance in the source tree from common leaf l to the element a
ElementDistance(src, l, a) == NodeDistance(src, LeafNode(src, l), a)

\* as KNearest, but the distance is left out: the first k labels are taken
KNearestByLabel(src, CL, a, kk) ==
    SubSeq(SortBy(CL, [l \in CL |-> Zero]), 1, kk)

\* the k common leaves nearest to a in the source tree, ascending
KNearest(src, CL, a, kk) ==
    SubSeq(SortBy(CL, [l \in CL |-> ElementDistance(src, l, a)]), 1, kk)

\* cutback distance: the distance from l to a minus the branch of a
Cutback(src, l, a) == RSub(ElementDistance(src, l, a), src.len[a])

\* as TempDistance, but the branch of a is not taken off the distance
TempDistanceUncut(src, lrate, l, a) == RMul(ElementDistance(src, l, a), lrate[l])

\* d_p(l, a) = cutback(l, a) * r^(l)(target, source)
TempDistance(src, lrate, l, a) == RMul(Cutback(src, l, a), lrate[l])

\* l has a branch of the target above it on which a marker can be put
Feasible(tgt, l) == tgt.parent[LeafNode(tgt, l)] # 0

\* the temporary markers for a, in canonical order (d_p, then label)
Markers(src, tgt, lrate, sel, a) ==
    LET F == {l \in Range(sel) : Feasible(tgt, l)}
        dp == [l \in F |-> TempDistance(src, lrate, l, a)]
        ord == SortBy(F, dp)
    IN [i \in 1..Len(ord) |-> Walk(tgt, LeafNode(tgt, ord[i]), dp[ord[i]])]

\* PositionFinder: the insertion position of a on the target tree tgt
PositionFinder(src, tgt, CL, lrate, a, kk) ==
    LET sel == KNearest(src, CL, a, kk)
        ms == Markers(src, tgt, lrate, sel, a)
    IN IF Len(ms) >= 1 THEN Reduce(tgt, ms)
       ELSE Reduce(tgt, [i \in 1..Len(sel) |->
                            [node |-> LeafNode(tgt, sel[i]), off |-> Zero]])

\* as SplitBranch, but the new node is hung below the node it was to be
\* the parent of
SplitBranchLoop(C, n, off) ==
    LET s == Len(C.parent) + 1
    IN [parent |-> [C.parent EXCEPT ![n] = s] \o <<n>>,
        len |-> [C.len EXCEPT ![n] = off] \o <<RSub(C.len[n], off)>>,
        label |-> C.label \o <<NoLabel>>]

\* as SplitBranch, but the upper part keeps the whole length of the branch
SplitBranchKeepLength(C, n, off) ==
    LET s == Len(C.parent) + 1
    IN [parent |-> [C.parent EXCEPT ![n] = s] \o <<C.parent[n]>>,
        len |-> [C.len EXCEPT ![n] = off] \o <<C.len[n]>>,
        label |-> C.label \o <<NoLabel>>]

\* C with the branch above n split at off from n by a new node Len + 1
SplitBranch(C, n, off) ==
    LET s == Len(C.parent) + 1
    IN [parent |-> [C.parent EXCEPT ![n] = s] \o <<C.parent[n]>>,
        len |-> [C.len EXCEPT ![n] = off] \o <<RSub(C.len[n], off)>>,
        label |-> C.label \o <<NoLabel>>]

\* as Insert, but the node put at the position during the search stays in
\* the tree next to the element
InsertKeepMarker(C, pos, src, a, lens) ==
    LET q == Walk(C, pos.node, pos.off)
        D == SplitBranch(C, q.node, q.off)
        s == Len(C.parent) + 1
        M == [parent |-> Append(D.parent, s),
              len |-> Append(D.len, Zero),
              label |-> Append(D.label, NoLabel)]
    IN Graft(M, s, src, a, lens)

\* as Insert, but no branch is split: the element is hung below the node
\* at the lower end of the branch
InsertNoSplit(C, pos, src, a, lens) ==
    Graft(C, Walk(C, pos.node, pos.off).node, src, a, lens)

\* as Insert, but the position is used as it was found on the original
\* tree, whatever has been inserted into the copy since
InsertStale(C, pos, src, a, lens) ==
    IF pos.off = Zero /\ ~IsLeaf(C, pos.node)
    THEN Graft(C, pos.node, src, a, lens)
    ELSE Graft(SplitBranch(C, pos.node, pos.off), Len(C.parent) + 1, src, a, lens)

\* the element of src rooted at a planted in the copy C at the position pos
\* (a point of the tree the copy was made from)
Insert(C, pos, src, a, lens) ==
    LET q == Walk(C, pos.node, pos.off)
    IN IF q.off = Zero /\ ~IsLeaf(C, q.node)
       THEN Graft(C, q.node, src, a, lens)
       ELSE Graft(SplitBranch(C, q.node, q.off), Len(C.parent) + 1, src, a, lens)

\* one SD element a of src completed into the copy C of tgt
InsertElement(C, src, tgt, CL, grate, lrate, a, kk) ==
    Insert(C, PositionFinder(src, tgt, CL, lrate, a, kk), src, a, Rescaled(src, a, grate))

\* as IntoT2, but the search runs on the copy as it is by now: the leaves
\* inserted so far count as common leaves and markers may start from them
IntoT2Live(C, Ta, Tb, CL, R, a, kk) ==
    LET live == CommonLeaves(Ta, C)
    IN InsertElement(C, Ta, C, live, R.g21,
                     [l \in live |-> LeafRate(C, Ta, live, l)], a, kk)

\* an element a of SD(Ta) completed into the copy C of Tb: lengths by
\* r(Tb, Ta), markers by the leaf rates r^(l)(Tb, Ta)
IntoT2(C, Ta, Tb, CL, R, a, kk) == InsertElement(C, Ta, Tb, CL, R.g21, R.l21, a, kk)

\* as IntoT1, but the lengths are adjusted by the rate of the other direction
IntoT1WrongRate(C, Ta, Tb, CL, R, b, kk) ==
    InsertElement(C, Tb, Ta, CL, R.g21, R.l12, b, kk)

\* an element b of SD(Tb) completed into the copy C of Ta: lengths by
\* r(Ta, Tb), markers by the leaf rates r^(l)(Ta, Tb)
IntoT1(C, Ta, Tb, CL, R, b, kk) == InsertElement(C, Tb, Ta, CL, R.g12, R.l12, b, kk)

(* ------------------------ Step 5: BSD --------------------------------- *)
\* Natural numbers beyond the machine range: little-endian limbs in base
\* Base, without leading zero limbs.
Base == 10000

RECURSIVE Carry(_, _)
\* the limbs of the number with the coefficients cs (each below 2^30) plus c
Carry(cs, c) ==
    IF cs = <<>> THEN (IF c = 0 THEN <<>> ELSE <<c % Base>> \o Carry(<<>>, c \div Base))
    ELSE <<(cs[1] + c) % Base>> \o Carry(Tail(cs), (cs[1] + c) \div Base)

RECURSIVE Strip(_)
Strip(a) == IF a # <<>> /\ a[Len(a)] = 0 THEN Strip(SubSeq(a, 1, Len(a) - 1)) ELSE a

BigAdd(a, b) ==
    LET n == IF Len(a) > Len(b) THEN Len(a) ELSE Len(b)
        at(x, i) == IF i <= Len(x) THEN x[i] ELSE 0
    IN Strip(Carry([i \in 1..n |-> at(a, i) + at(b, i)], 0))

\* n * n for an integer n
BigSquare(n) ==
    LET m == Abs(n)
        n0 == m % Base
        n1 == (m \div Base) % Base
        n2 == m \div (Base * Base)
    IN Strip(Carry(<<n0 * n0, 2 * n0 * n1, 2 * n0 * n2 + n1 * n1, 2 * n1 * n2, n2 * n2>>, 0))

RECURSIVE BigRangeSum(_, _, _)
\* f[lo] + ... + f[hi], halving the range
BigRangeSum(f, lo, hi) ==
    IF lo > hi THEN <<>>
    ELSE IF lo = hi THEN f[lo]
    ELSE LET mid == (lo + hi) \div 2
         IN BigAdd(BigRangeSum(f, lo, mid), BigRangeSum(f, mid + 1, hi))

RECURSIVE LcmAll(_)
\* the least common multiple of the positive numbers of S
LcmAll(S) ==
    IF S = {} THEN 1
    ELSE LET x == CHOOSE y \in S : TRUE
             r == LcmAll(S \ {x})
         IN (x \div Gcd(x, r)) * r

\* as BSDSquared, but the differences are summed without being squared
BSDSquaredNoSquare(Ca, Cb) ==
    LET n == Len(LabelOrder)
        L == Leaves(Ca)
        diff == [m \in 1..(n * n) |->
                    LET li == LabelOrder[((m - 1) \div n) + 1]
                        lj == LabelOrder[((m - 1) % n) + 1]
                    IN IF Rank(li) < Rank(lj) /\ li \in L /\ lj \in L
                       THEN RSub(distance(Ca, li, lj), distance(Cb, li, lj))
                       ELSE Zero]
        D == LcmAll({diff[m][2] : m \in 1..(n * n)})
    IN [num |-> BigRangeSum([m \in 1..(n * n) |->
                                Strip(Carry(<<Abs(diff[m][1] * (D \div diff[m][2]))>>, 0))],
                            1, n * n),
        scale |-> D]

\* as BSDSquared, but over the ordered pairs: every pair is counted twice
BSDSquaredOrdered(Ca, Cb) ==
    LET n == Len(LabelOrder)
        L == Leaves(Ca)
        diff == [m \in 1..(n * n) |->
                    LET li == LabelOrder[((m - 1) \div n) + 1]
                        lj == LabelOrder[((m - 1) % n) + 1]
                    IN IF Rank(li) # Rank(lj) /\ li \in L /\ lj \in L
                       THEN RSub(distance(Ca, li, lj), distance(Cb, li, lj))
                       ELSE Zero]
        D == LcmAll({diff[m][2] : m \in 1..(n * n)})
    IN [num |-> BigRangeSum([m \in 1..(n * n) |-> BigSquare(diff[m][1] * (D \div diff[m][2]))],
                            1, n * n),
        scale |-> D]

\* the sum over the unordered leaf pairs {li, lj}, i < j, of the squared
\* difference of their distances in Ca and Cb, as the fraction
\* num / scale^2: the square of the branch-score distance
BSDSquared(Ca, Cb) ==
    LET n == Len(LabelOrder)
        L == Leaves(Ca)
        diff == [m \in 1..(n * n) |->
                    LET li == LabelOrder[((m - 1) \div n) + 1]
                        lj == LabelOrder[((m - 1) % n) + 1]
                    IN IF Rank(li) < Rank(lj) /\ li \in L /\ lj \in L
                       THEN RSub(distance(Ca, li, lj), distance(Cb, li, lj))
                       ELSE Zero]
        D == LcmAll({diff[m][2] : m \in 1..(n * n)})
    IN [num |-> BigRangeSum([m \in 1..(n * n) |-> BigSquare(diff[m][1] * (D \div diff[m][2]))],
                            1, n * n),
        scale |-> D]

\* no distance: a distance has a scale of 1 or more
NoDistance == [num |-> <<>>, scale |-> 0]

\* as BSDCalculator, but it is enough that Cb has every leaf of Ca
BSDCalculatorSubset(Ca, Cb) ==
    IF ~(Leaves(Ca) \subseteq Leaves(Cb)) THEN [error |-> "LeafSetMismatch", value |-> NoDistance]
    ELSE [error |-> "", value |-> BSDSquared(Ca, Cb)]

\* BSDCalculator: the squared distance of two trees on the same leaf set
BSDCalculator(Ca, Cb) ==
    IF Leaves(Ca) # Leaves(Cb) THEN [error |-> "LeafSetMismatch", value |-> NoDistance]
    ELSE [error |-> "", value |-> BSDSquared(Ca, Cb)]

(* ------------------- no common leaves: join mode ---------------------- *)
\* Ta and Tb under a synthetic root (the last node) that connects their roots
Join(Ta, Tb) ==
    LET na == Len(Ta.parent)
        nb == Len(Tb.parent)
        top == na + nb + 1
    IN [parent |-> [i \in 1..na |-> IF Ta.parent[i] = 0 THEN top ELSE Ta.parent[i]]
                   \o [i \in 1..nb |-> IF Tb.parent[i] = 0 THEN top ELSE Tb.parent[i] + na]
                   \o <<0>>,
        len |-> Ta.len \o Tb.len \o <<Zero>>,
        label |-> Ta.label \o Tb.label \o <<NoLabel>>]

(* ------------------------ tree objects -------------------------------- *)
\* heap holds the tree objects of one pair: heap[1] and heap[2] are the two
\* input trees, later entries the objects made while the pair is processed.
\* A tree variable of the program is a reference into heap.

\* a second reference to the object r instead of a copy of it
ShallowCopy(h, r) == [heap |-> h, ref |-> r]

\* a new object with the contents of the object r
DeepCopy(h, r) == [heap |-> Append(h, h[r]), ref |-> Len(h) + 1]

NewObject(h, T) == [heap |-> Append(h, T), ref |-> Len(h) + 1]

(* ------------------------------ state --------------------------------- *)
VARIABLES
    given,  \* the two input trees as they were handed in
    heap,   \* the tree objects
    k,      \* the parameter k
    pc,     \* the step of the orchestrator
    cl,     \* CL(T1, T2)
    sd1,    \* SD(T1), nodes of T1
    sd2,    \* SD(T2), nodes of T2
    rates,  \* the adjustment rates of the pair
    c1,     \* reference of the working copy of T1 (0: none)
    c2,     \* reference of the working copy of T2 (0: none)
    pend1,  \* elements of SD(T2) not yet inserted into the copy of T1
    pend2,  \* elements of SD(T1) not yet inserted into the copy of T2
    out,    \* what is emitted for the pair
    batch,  \* the input file: its lines, the first tree and the subsequent ones
    idx,    \* the line whose tree is compared with the first tree (0: no batch)
    reports, \* what has been written to the output, pair by pair
    edits   \* insertions found on the snapshot and not yet merged into a copy

vars == <<given, heap, k, pc, cl, sd1, sd2, rates, c1, c2, pend1, pend2, out,
          batch, idx, reports, edits>>

T1 == heap[1]
T2 == heap[2]

NoOutput == [kind |-> "none", error |-> "", t1 |-> EmptyTree, t2 |-> EmptyTree, bsd |-> NoDistance]
ErrorReport(e) == [kind |-> "error", error |-> e, t1 |-> EmptyTree, t2 |-> EmptyTree, bsd |-> NoDistance]
Result(Ca, Cb, d) == [kind |-> "result", error |-> "", t1 |-> Ca, t2 |-> Cb, bsd |-> d]

Init ==
    /\ given \in InputTrees \X InputTrees
    /\ heap = given
    /\ k \in 1..MaxK
    /\ pc = "start"
    /\ cl = {}
    /\ sd1 = {}
    /\ sd2 = {}
    /\ rates = NoRates
    /\ c1 = 0
    /\ c2 = 0
    /\ pend1 = {}
    /\ pend2 = {}
    /\ out = NoOutput
    /\ batch = <<>>
    /\ idx = 0
    /\ reports = <<>>
    /\ edits = {}

\* as ValidK, but with 1 as the least k
ValidKFromOne(kk, n) == 1 <= kk /\ kk <= n

\* k must lie between 2 and the number of common leaves
ValidK(kk, n) == 2 <= kk /\ kk <= n

\* as Validate, but k is checked before the join mode is looked for
ValidateKFirst ==
    /\ pc = "start"
    /\ LET n == Cardinality(CommonLeaves(T1, T2))
       IN IF ~ValidK(k, n) THEN pc' = "error" /\ out' = ErrorReport("InvalidK")
          ELSE IF n = 0 THEN pc' = "join" /\ out' = out
          ELSE pc' = "classify" /\ out' = out
    /\ UNCHANGED <<edits, batch, idx, reports, given, heap, k, cl, sd1, sd2, rates, c1, c2, pend1, pend2>>

\* the orchestrator's entry: join mode without common leaves, else k is checked
Validate ==
    /\ pc = "start"
    /\ LET n == Cardinality(CommonLeaves(T1, T2))
       IN IF n = 0 THEN pc' = "join" /\ out' = out
          ELSE IF ~ValidK(k, n) THEN pc' = "error" /\ out' = ErrorReport("InvalidK")
          ELSE pc' = "classify" /\ out' = out
    /\ UNCHANGED <<edits, batch, idx, reports, given, heap, k, cl, sd1, sd2, rates, c1, c2, pend1, pend2>>

\* Step 1
Classify ==
    /\ pc = "classify"
    /\ cl' = CommonLeaves(T1, T2)
    /\ sd1' = SD(T1, DistinctLeaves(T1, T2))
    /\ sd2' = SD(T2, DistinctLeaves(T2, T1))
    /\ pc' = "rates"
    /\ UNCHANGED <<edits, batch, idx, reports, given, heap, k, rates, c1, c2, pend1, pend2, out>>

\* Step 2
ComputeRates ==
    /\ pc = "rates"
    /\ LET r == RateCalculator(T1, T2, cl)
       IN IF r.error # "" THEN pc' = "error" /\ out' = ErrorReport(r.error) /\ rates' = rates
          ELSE pc' = "transfer" /\ out' = out /\ rates' = r.rates
    /\ UNCHANGED <<edits, batch, idx, reports, given, heap, k, cl, sd1, sd2, c1, c2, pend1, pend2>>

\* as MakeCopies, but only the elements of SD(T1) are scheduled
MakeCopiesOneWay ==
    /\ pc = "transfer"
    /\ LET a == DeepCopy(heap, 1)
           b == DeepCopy(a.heap, 2)
       IN heap' = b.heap /\ c1' = a.ref /\ c2' = b.ref
    /\ pend2' = sd1
    /\ pend1' = {}
    /\ pc' = "insert"
    /\ UNCHANGED <<edits, batch, idx, reports, given, k, cl, sd1, sd2, rates, out>>

\* Step 3: the copies on which every later change is made
MakeCopies ==
    /\ pc = "transfer"
    /\ LET a == DeepCopy(heap, 1)
           b == DeepCopy(a.heap, 2)
       IN heap' = b.heap /\ c1' = a.ref /\ c2' = b.ref
    /\ pend2' = sd1
    /\ pend1' = sd2
    /\ pc' = "insert"
    /\ UNCHANGED <<edits, batch, idx, reports, given, k, cl, sd1, sd2, rates, out>>

\* as InsertIntoT2, but the copy is written to the output as it grows
InsertIntoT2Streaming ==
    /\ pc = "insert"
    /\ \E a \in pend2 :
        /\ heap' = [heap EXCEPT ![c2] = IntoT2(heap[c2], T1, T2, cl, rates, a, k)]
        /\ pend2' = pend2 \ {a}
        /\ out' = [out EXCEPT !.t2 = heap'[c2]]
    /\ UNCHANGED <<edits, batch, idx, reports, given, k, pc, cl, sd1, sd2, rates, c1, c2, pend1>>

\* Step 4 for one element a of SD(T1): into the copy of T2
InsertIntoT2 ==
    /\ pc = "insert"
    /\ \E a \in pend2 :
        /\ heap' = [heap EXCEPT ![c2] = IntoT2(heap[c2], T1, T2, cl, rates, a, k)]
        /\ pend2' = pend2 \ {a}
    /\ UNCHANGED <<edits, batch, idx, reports, given, k, pc, cl, sd1, sd2, rates, c1, c2, pend1, out>>

\* Step 4 for one element b of SD(T2): into the copy of T1
InsertIntoT1 ==
    /\ pc = "insert"
    /\ pend2 = {}
    /\ \E b \in pend1 :
        /\ heap' = [heap EXCEPT ![c1] = IntoT1(heap[c1], T1, T2, cl, rates, b, k)]
        /\ pend1' = pend1 \ {b}
    /\ UNCHANGED <<edits, batch, idx, reports, given, k, pc, cl, sd1, sd2, rates, c1, c2, pend2, out>>

\* no common leaves: each tree is completed by joining the other to it
JoinTrees ==
    /\ pc = "join"
    /\ LET a == NewObject(heap, Join(T1, T2))
           b == NewObject(a.heap, Join(T2, T1))
       IN heap' = b.heap /\ c1' = a.ref /\ c2' = b.ref
    /\ pc' = "insert"
    /\ UNCHANGED <<edits, batch, idx, reports, given, k, cl, sd1, sd2, rates, pend1, pend2, out>>

\* Step 5: the distance of the two completed trees, and the pair's output
ComputeBSD ==
    /\ pc = "insert"
    /\ pend1 = {}
    /\ pend2 = {}
    /\ LET d == BSDCalculator(heap[c1], heap[c2])
       IN IF d.error # "" THEN pc' = "error" /\ out' = ErrorReport(d.error)
          ELSE pc' = "done" /\ out' = Result(heap[c1], heap[c2], d.value)
    /\ UNCHANGED <<edits, batch, idx, reports, given, heap, k, cl, sd1, sd2, rates, c1, c2, pend1, pend2>>

Next ==
    \/ Validate
    \/ Classify
    \/ ComputeRates
    \/ MakeCopies
    \/ InsertIntoT2
    \/ InsertIntoT1
    \/ JoinTrees
    \/ ComputeBSD

Spec == Init /\ [][Next]_vars


(* ------------- the rate computation on its own ------------------------ *)
\* RateCalculator called for a pair as it is, whatever its common leaves
RateOnly ==
    /\ pc = "start"
    /\ cl' = CommonLeaves(T1, T2)
    /\ LET r == RateCalculator(T1, T2, cl')
       IN IF r.error # "" THEN pc' = "error" /\ out' = ErrorReport(r.error) /\ rates' = rates
          ELSE pc' = "rated" /\ out' = out /\ rates' = r.rates
    /\ UNCHANGED <<edits, batch, idx, reports, given, heap, k, sd1, sd2, c1, c2, pend1, pend2>>

NextRate == RateOnly

RateSpec == Init /\ [][NextRate]_vars

(* ------------- the distance computation on its own -------------------- *)
\* BSDCalculator called for two trees as they are, whatever their leaves
BsdOnly ==
    /\ pc = "start"
    /\ LET d == BSDCalculator(T1, T2)
       IN IF d.error # "" THEN pc' = "error" /\ out' = ErrorReport(d.error)
          ELSE pc' = "measured" /\ out' = Result(T1, T2, d.value)
    /\ UNCHANGED <<edits, batch, idx, reports, given, heap, k, cl, sd1, sd2, rates, c1, c2, pend1, pend2>>

NextBsd == BsdOnly

BsdSpec == Init /\ [][NextBsd]_vars

(* ------------- the distance restricted to the common leaves ----------- *)
\* the nodes of T with a leaf of S at or below them
Kept(T, S) == {n \in Nodes(T) : SubtreeLeaves(T, n) \cap S # {}}

\* the nodes that remain after pruning: the leaves of S and the nodes at
\* which two kept lineages meet
Retained(T, S) ==
    {n \in Kept(T, S) : T.label[n] \in S \/ Cardinality(Children(T, n) \cap Kept(T, S)) >= 2}

RECURSIVE Above(_, _, _)
\* the nearest node of R strictly above n, 0 when there is none
Above(T, R, n) ==
    IF T.parent[n] = 0 THEN 0
    ELSE IF T.parent[n] \in R THEN T.parent[n]
    ELSE Above(T, R, T.parent[n])

RECURSIVE Merged(_, _, _)
\* the branch of n merged with the branches of the removed nodes above it
Merged(T, R, n) ==
    IF T.parent[n] = 0 THEN Zero
    ELSE IF T.parent[n] \in R THEN T.len[n]
    ELSE RAdd(T.len[n], Merged(T, R, T.parent[n]))

\* as Prune, but a node left with one child is removed together with its
\* branch length
PruneDropLengths(T, S) ==
    LET R == Retained(T, S)
        ix(n) == Cardinality({m \in R : m <= n})
        node == [i \in 1..Cardinality(R) |-> CHOOSE n \in R : ix(n) = i]
    IN [parent |-> [i \in 1..Cardinality(R) |->
                       IF Above(T, R, node[i]) = 0 THEN 0 ELSE ix(Above(T, R, node[i]))],
        len    |-> [i \in 1..Cardinality(R) |->
                       IF Above(T, R, node[i]) = 0 THEN Zero ELSE T.len[node[i]]],
        label  |-> [i \in 1..Cardinality(R) |-> T.label[node[i]]]]

\* a new tree: T restricted to the leaves of S, path distances kept
Prune(T, S) ==
    LET R == Retained(T, S)
        ix(n) == Cardinality({m \in R : m <= n})
        node == [i \in 1..Cardinality(R) |-> CHOOSE n \in R : ix(n) = i]
    IN [parent |-> [i \in 1..Cardinality(R) |->
                       IF Above(T, R, node[i]) = 0 THEN 0 ELSE ix(Above(T, R, node[i]))],
        len    |-> [i \in 1..Cardinality(R) |->
                       IF Above(T, R, node[i]) = 0 THEN Zero ELSE Merged(T, R, node[i])],
        label  |-> [i \in 1..Cardinality(R) |-> T.label[node[i]]]]

\* what the tool writes: a value under its name, or the message alone
Written(name, d) == [kind |-> name, error |-> "", t1 |-> EmptyTree, t2 |-> EmptyTree, bsd |-> d]

\* bsd.py on a pair: BSD, BSD(-) on pruned copies, or the message
PruningBsd ==
    /\ pc = "start"
    /\ cl' = CommonLeaves(T1, T2)
    /\ IF Leaves(T1) = Leaves(T2)
       THEN /\ out' = Written("BSD", BSDSquared(T1, T2))
            /\ UNCHANGED <<heap, c1, c2>>
       ELSE IF cl' # {}
       THEN /\ heap' = heap \o <<Prune(T1, cl'), Prune(T2, cl')>>
            /\ c1' = Len(heap) + 1
            /\ c2' = Len(heap) + 2
            /\ out' = Written("BSD(-)", BSDSquared(heap'[c1'], heap'[c2']))
       ELSE /\ out' = Written("message", NoDistance)
            /\ UNCHANGED <<heap, c1, c2>>
    /\ pc' = "written"
    /\ UNCHANGED <<edits, batch, idx, reports, given, k, sd1, sd2, rates, pend1, pend2>>

NextTool == PruningBsd

ToolSpec == Init /\ [][NextTool]_vars

(* --------------------- a file of several trees ------------------------ *)
\* the most lines of an input file
MaxBatch == 3

\* a line of the input file: a tree, or text that is no Newick tree
Parsed(T) == [ok |-> TRUE, tree |-> T]
Malformed == [ok |-> FALSE, tree |-> EmptyTree]
BatchLines == {Parsed(TreeS1), Parsed(TreeS2), Parsed(TreeD), Parsed(TreeZ), Malformed}

NoPair == <<EmptyTree, EmptyTree>>

BatchInit ==
    /\ batch \in UNION {[1..n -> BatchLines] : n \in 2..MaxBatch}
    /\ idx = 2
    /\ reports = <<>>
    /\ edits = {}
    /\ k \in 1..MaxK
    /\ pc = "idle"
    /\ given = NoPair
    /\ heap = NoPair
    /\ cl = {}
    /\ sd1 = {}
    /\ sd2 = {}
    /\ rates = NoRates
    /\ c1 = 0
    /\ c2 = 0
    /\ pend1 = {}
    /\ pend2 = {}
    /\ out = NoOutput

\* the next pair of the file: the first tree and the tree of line idx; a
\* line that is no tree is reported as InvalidNewick for this pair only
StartPair ==
    /\ pc = "idle"
    /\ idx <= Len(batch)
    /\ IF ~batch[1].ok \/ ~batch[idx].ok
       THEN /\ reports' = Append(reports, [pair |-> idx, out |-> ErrorReport("InvalidNewick")])
            /\ idx' = idx + 1
            /\ UNCHANGED <<given, heap, pc>>
       ELSE /\ given' = <<batch[1].tree, batch[idx].tree>>
            /\ heap' = given'
            /\ pc' = "start"
            /\ UNCHANGED <<idx, reports>>
    /\ UNCHANGED <<edits, batch, k, cl, sd1, sd2, rates, c1, c2, pend1, pend2, out>>

\* as EmitPair, but a failed pair ends the whole file
EmitPairAbort ==
    /\ pc \in {"done", "error"}
    /\ idx # 0
    /\ reports' = Append(reports, [pair |-> idx, out |-> out])
    /\ idx' = IF pc = "error" THEN Len(batch) + 1 ELSE idx + 1
    /\ pc' = "idle"
    /\ given' = NoPair
    /\ heap' = NoPair
    /\ cl' = {} /\ sd1' = {} /\ sd2' = {}
    /\ rates' = NoRates
    /\ c1' = 0 /\ c2' = 0
    /\ pend1' = {} /\ pend2' = {}
    /\ out' = NoOutput
    /\ UNCHANGED <<edits, batch, k>>

\* the pair has ended, with a result or an error: what it emits is written
\* to the output and the file goes on with the next line
EmitPair ==
    /\ pc \in {"done", "error"}
    /\ idx # 0
    /\ reports' = Append(reports, [pair |-> idx, out |-> out])
    /\ idx' = idx + 1
    /\ pc' = "idle"
    /\ given' = NoPair
    /\ heap' = NoPair
    /\ cl' = {} /\ sd1' = {} /\ sd2' = {}
    /\ rates' = NoRates
    /\ c1' = 0 /\ c2' = 0
    /\ pend1' = {} /\ pend2' = {}
    /\ out' = NoOutput
    /\ UNCHANGED <<edits, batch, k>>

NextBatch ==
    \/ StartPair
    \/ EmitPair
    \/ Validate
    \/ Classify
    \/ ComputeRates
    \/ MakeCopies
    \/ InsertIntoT2
    \/ InsertIntoT1
    \/ JoinTrees
    \/ ComputeBSD

BatchSpec == BatchInit /\ [][NextBatch]_vars

(* ------------- the distance engine on its own ------------------------ *)
\* a query to the DistanceEngine of the first tree, for any two labels
QueryOnly ==
    /\ pc = "start"
    /\ \E u \in Range(LabelOrder), v \in Range(LabelOrder) :
          LET d == DistanceQuery(T1, u, v)
          IN out' = [kind |-> "distance", query |-> <<u, v>>,
                     error |-> d.error, value |-> d.value]
    /\ pc' = "queried"
    /\ UNCHANGED <<edits, batch, idx, reports, given, heap, k, cl, sd1, sd2, rates,
                   c1, c2, pend1, pend2>>

NextQuery == QueryOnly

EngineSpec == Init /\ [][NextQuery]_vars

(* ------------- elements processed concurrently ----------------------- *)
\* an insertion found and not yet made: the element, the copy it goes
\* into, its position on the tree as handed in, its adjusted branch lengths
Edit(into, a, pos, lens) == [into |-> into, elem |-> a, pos |-> pos, lens |-> lens]

\* a worker finds the position of an element of SD(T1) on T2 as handed in
SearchForT2 ==
    /\ pc = "insert"
    /\ \E a \in pend2 :
          /\ \A e \in edits : ~(e.into = 2 /\ e.elem = a)
          /\ edits' = edits \cup {Edit(2, a, PositionFinder(T1, T2, cl, rates.l21, a, k),
                                        Rescaled(T1, a, rates.g21))}
    /\ UNCHANGED <<batch, idx, reports, given, heap, k, pc, cl, sd1, sd2, rates,
                   c1, c2, pend1, pend2, out>>

\* a worker finds the position of an element of SD(T2) on T1 as handed in
SearchForT1 ==
    /\ pc = "insert"
    /\ \E b \in pend1 :
          /\ \A e \in edits : ~(e.into = 1 /\ e.elem = b)
          /\ edits' = edits \cup {Edit(1, b, PositionFinder(T2, T1, cl, rates.l12, b, k),
                                        Rescaled(T2, b, rates.g12))}
    /\ UNCHANGED <<batch, idx, reports, given, heap, k, pc, cl, sd1, sd2, rates,
                   c1, c2, pend1, pend2, out>>

\* as MergeIntoT2, but the worker plants the element into a copy of its own
\* of T2 as handed in and writes that copy over the shared one
MergeIntoT2LastWriter ==
    /\ pc = "insert"
    /\ \E e \in edits :
          /\ e.into = 2
          /\ heap' = [heap EXCEPT ![c2] = Insert(T2, e.pos, T1, e.elem, e.lens)]
          /\ pend2' = pend2 \ {e.elem}
          /\ edits' = edits \ {e}
    /\ UNCHANGED <<batch, idx, reports, given, k, pc, cl, sd1, sd2, rates, c1, c2, pend1, out>>

\* an insertion that was found is merged into the shared copy of T2, one
\* merge at a time
MergeIntoT2 ==
    /\ pc = "insert"
    /\ \E e \in edits :
          /\ e.into = 2
          /\ heap' = [heap EXCEPT ![c2] = Insert(heap[c2], e.pos, T1, e.elem, e.lens)]
          /\ pend2' = pend2 \ {e.elem}
          /\ edits' = edits \ {e}
    /\ UNCHANGED <<batch, idx, reports, given, k, pc, cl, sd1, sd2, rates, c1, c2, pend1, out>>

\* an insertion that was found is merged into the shared copy of T1
MergeIntoT1 ==
    /\ pc = "insert"
    /\ \E e \in edits :
          /\ e.into = 1
          /\ heap' = [heap EXCEPT ![c1] = Insert(heap[c1], e.pos, T2, e.elem, e.lens)]
          /\ pend1' = pend1 \ {e.elem}
          /\ edits' = edits \ {e}
    /\ UNCHANGED <<batch, idx, reports, given, k, pc, cl, sd1, sd2, rates, c1, c2, pend2, out>>

NextConcurrent ==
    \/ Validate
    \/ Classify
    \/ ComputeRates
    \/ MakeCopies
    \/ SearchForT2
    \/ SearchForT1
    \/ MergeIntoT2
    \/ MergeIntoT1
    \/ JoinTrees
    \/ ComputeBSD

ConcurrentSpec == Init /\ [][NextConcurrent]_vars

(* ====================== properties of the completion ================== *)
\* the leaves of both input trees
Union == Leaves(given[1]) \cup Leaves(given[2])

\* the working copies exist
Copied == c1 # 0 /\ c2 # 0

\* every insertion of the pair has been made
Completed == Copied /\ pc \in {"insert", "done"} /\ pend1 = {} /\ pend2 = {}

\* the nodes of C that carry the label l
Bearing(C, l) == {n \in Nodes(C) : C.label[n] = l}

\* C has exactly the leaves of S, each on one node, and no other leaf node
ExactLeafSet(C, S) ==
    /\ \A l \in S : Cardinality(Bearing(C, l)) = 1
    /\ \A n \in Nodes(C) : (Children(C, n) = {}) <=> (C.label[n] \in S)
    /\ Cardinality({n \in Nodes(C) : Children(C, n) = {}}) = Cardinality(S)

\* the sum of the branch lengths on the path between the leaves li and lj
\* of T, from the definition of the distance (no depth, no LCA)
PathDistance(T, li, lj) == PathLength(T, LeafNode(T, li), LeafNode(T, lj))

\* the number of branches on the path between the leaves li and lj of T
PathBranches(T, li, lj) ==
    LET u == LeafNode(T, li)
        v == LeafNode(T, lj)
        au == Ancestors(T, u) \cup {u}
        av == Ancestors(T, v) \cup {v}
    IN Cardinality((au \ av) \cup (av \ au))

\* C1: after all insertions of a pair both completed trees have exactly the
\* leaves L(T1) \cup L(T2): every label of the union on exactly one leaf
\* node, and no other leaf.
C1_LeafUnion ==
    Completed => ExactLeafSet(heap[c1], Union) /\ ExactLeafSet(heap[c2], Union)

\* C1 witness: a finished pair with common leaves where two or more elements
\* of SD(T1), one of them a subtree of several leaves, and an element of
\* SD(T2) were inserted.
C1_Witness ==
    /\ pc = "done"
    /\ Cardinality(sd1) >= 2
    /\ \E a \in sd1 : Cardinality(SubtreeLeaves(T1, a)) >= 2
    /\ sd2 # {}

\* C2: the input trees are never changed: at every step both hold what was
\* handed in, and the working copies are objects distinct from the inputs
\* and from each other.
C2_InputsUnchanged ==
    /\ T1 = given[1]
    /\ T2 = given[2]
    /\ Copied => c1 \notin {1, 2} /\ c2 \notin {1, 2} /\ c1 # c2

\* C2 witness: a finished pair in which both working copies were changed by
\* insertions.
C2_Witness ==
    /\ pc = "done"
    /\ sd1 # {} /\ sd2 # {}
    /\ heap[c1] # given[1]
    /\ heap[c2] # given[2]

TwoSets(S) == {{a, b} : a \in S, b \in S} \ {{a} : a \in S}

\* the sum over the unordered pairs of leaves of S of their distance in T
DistanceSum(T, S) ==
    LET P == TwoSets(S)
    IN RSum([p \in P |-> LET a == CHOOSE x \in p : TRUE
                             b == CHOOSE y \in p : y # a
                         IN PathDistance(T, a, b)], P)

\* the sum over the unordered pairs of leaves of Ta of the squared difference
\* of their distances in Ta and Tb
SquaredDifferences(Ta, Tb) ==
    LET P == TwoSets(Leaves(Ta))
    IN RSum([p \in P |-> LET a == CHOOSE x \in p : TRUE
                             b == CHOOSE y \in p : y # a
                         IN RSq(RSub(PathDistance(Ta, a, b), PathDistance(Tb, a, b)))], P)

RECURSIVE Digits(_)
\* the natural number n written in base Base, lowest digit first
Digits(n) == IF n = 0 THEN <<>> ELSE <<n % Base>> \o Digits(n \div Base)

\* the squared distance d of the model has the rational value x
SameValue(d, x) == d.num = Digits(x[1] * ((d.scale * d.scale) \div x[2]))

\* C4: when L(T1) = L(T2) nothing is to be inserted, and with a valid k the
\* pair does not fail: both trees come back as they were handed in, and the
\* distance of the result is the branch-score distance of the two inputs.
C4_Idempotence ==
    (Leaves(given[1]) = Leaves(given[2])) =>
        /\ sd1 = {} /\ sd2 = {} /\ pend1 = {} /\ pend2 = {}
        /\ (2 <= k /\ k <= Cardinality(Leaves(given[1]))) => pc # "error"
        /\ Copied => heap[c1] = given[1] /\ heap[c2] = given[2]
        /\ pc = "done" =>
              /\ out.kind = "result"
              /\ out.t1 = given[1]
              /\ out.t2 = given[2]
              /\ SameValue(out.bsd, SquaredDifferences(given[1], given[2]))

\* C4 witness: a finished pair of different trees on the same leaves, at a
\* distance other than zero.
C4_Witness ==
    /\ pc = "done"
    /\ Leaves(given[1]) = Leaves(given[2])
    /\ given[1] # given[2]
    /\ out.bsd.num # <<>>

RECURSIVE InsertAllIntoT2(_, _, _, _, _, _, _)
\* the elements todo of SD(Ta), in this order, completed into the copy C of Tb
InsertAllIntoT2(C, Ta, Tb, CL, R, todo, kk) ==
    IF todo = <<>> THEN C
    ELSE InsertAllIntoT2(IntoT2(C, Ta, Tb, CL, R, Head(todo), kk),
                         Ta, Tb, CL, R, Tail(todo), kk)

RECURSIVE InsertAllIntoT1(_, _, _, _, _, _, _)
\* the elements todo of SD(Tb), in this order, completed into the copy C of Ta
InsertAllIntoT1(C, Ta, Tb, CL, R, todo, kk) ==
    IF todo = <<>> THEN C
    ELSE InsertAllIntoT1(IntoT1(C, Ta, Tb, CL, R, Head(todo), kk),
                         Ta, Tb, CL, R, Tail(todo), kk)

\* what the orchestrator emits for the pair (Ta, Tb) with the parameter kk,
\* the elements of each SD taken in ascending node order
Run(Ta, Tb, kk) ==
    LET CL == CommonLeaves(Ta, Tb)
        n == Cardinality(CL)
        finish(Ca, Cb) ==
            LET d == BSDCalculator(Ca, Cb)
            IN IF d.error # "" THEN ErrorReport(d.error) ELSE Result(Ca, Cb, d.value)
    IN IF n = 0 THEN finish(Join(Ta, Tb), Join(Tb, Ta))
       ELSE IF ~ValidK(kk, n) THEN ErrorReport("InvalidK")
       ELSE LET r == RateCalculator(Ta, Tb, CL)
            IN IF r.error # "" THEN ErrorReport(r.error)
               ELSE finish(InsertAllIntoT1(Ta, Ta, Tb, CL, r.rates,
                               Ascending(SD(Tb, DistinctLeaves(Tb, Ta))), kk),
                           InsertAllIntoT2(Tb, Ta, Tb, CL, r.rates,
                               Ascending(SD(Ta, DistinctLeaves(Ta, Tb))), kk))

RECURSIVE Shape(_, _)
\* the subtree of T below n without node numbers and child order
Shape(T, n) ==
    [label |-> T.label[n], len |-> T.len[n],
     kids |-> {Shape(T, c) : c \in Children(T, n)}]

\* Ca and Cb are the same tree up to node numbers and child order
SameTree(Ca, Cb) == Shape(Ca, Root(Ca)) = Shape(Cb, Root(Cb))

\* C6: the pair handed in as (T2, T1) ends as the pair (T1, T2) does: the
\* same error or the same BSD(+), and the same two completed trees with the
\* roles swapped.
C6_Symmetry ==
    (pc \in {"done", "error"}) =>
        LET sw == Run(given[2], given[1], k)
        IN /\ sw.kind = out.kind
           /\ sw.error = out.error
           /\ sw.bsd = out.bsd
           /\ out.kind = "result" =>
                 SameTree(out.t1, sw.t2) /\ SameTree(out.t2, sw.t1)

\* C6 witness: a finished pair with different rates in the two directions,
\* elements inserted into both trees, and a distance other than zero.
C6_Witness ==
    /\ pc = "done"
    /\ sd1 # {} /\ sd2 # {}
    /\ rates.g12 # rates.g21
    /\ out.bsd.num # <<>>

\* the number of leaves the two input trees share
NCommon == Cardinality(Leaves(given[1]) \cap Leaves(given[2]))

\* k lies between 2 and the number of common leaves
KInRange == 2 <= k /\ k <= NCommon

\* nothing has been computed for the pair: no classification, no rate, no
\* copy, no insertion
Untouched ==
    /\ cl = {} /\ sd1 = {} /\ sd2 = {}
    /\ rates = NoRates
    /\ ~Copied /\ Len(heap) = 2
    /\ pend1 = {} /\ pend2 = {}

\* the orchestrator is at its end with a result or at a step that it can
\* take: the insertions and the distance need the two working copies
AtAStep ==
    \/ pc \in {"start", "classify", "rates", "transfer", "join"}
    \/ pc \in {"insert", "done"} /\ Copied

\* an error report carries no tree and no distance
EmitsNothing == out.t1 = EmptyTree /\ out.t2 = EmptyTree /\ out.bsd = NoDistance

\* some denominator sum of the pair is zero: in one of the trees all common
\* leaves, or one common leaf and all others, are at distance zero
Degenerate ==
    LET S == Leaves(given[1]) \cap Leaves(given[2])
    IN \E i \in {1, 2} :
          \/ \A a \in S, b \in S : PathDistance(given[i], a, b) = Zero
          \/ \E lc \in S : \A l \in S : PathDistance(given[i], lc, l) = Zero

JoinedUnderRoot(C, Ta, Tb) ==
    LET r == Root(C)
    IN /\ C.label[r] = NoLabel
       /\ Cardinality(Children(C, r)) = 2
       /\ \E x \in Children(C, r), y \in Children(C, r) :
             /\ x # y
             /\ Shape(C, x) = Shape(Ta, Root(Ta))
             /\ Shape(C, y) = Shape(Tb, Root(Tb))

\* C8: a pair without common leaves never ends in an error, whatever k: the
\* two trees are joined under a new root that connects their roots, both
\* completed trees have exactly the leaves L(T1) \cup L(T2), no rate is
\* computed, and the pair ends with a result that carries its BSD(+).
C8_JoinMode ==
    (NCommon = 0) =>
        /\ pc # "error" /\ out.kind # "error"
        /\ AtAStep
        /\ pc \notin {"classify", "rates", "transfer"} /\ rates = NoRates
        /\ Copied =>
              /\ JoinedUnderRoot(heap[c1], given[1], given[2])
              /\ JoinedUnderRoot(heap[c2], given[2], given[1])
              /\ ExactLeafSet(heap[c1], Union)
              /\ ExactLeafSet(heap[c2], Union)
        /\ pc = "done" =>
              /\ out.kind = "result"
              /\ out.t1 = heap[c1] /\ out.t2 = heap[c2]
              /\ out.bsd.scale >= 1

\* C8 witness: a finished pair without common leaves, with a k that no
\* number of common leaves would allow.
C8_Witness ==
    /\ pc = "done"
    /\ NCommon = 0
    /\ k = 1

\* C9: the rate computation ends with InsufficientCommonLeaves exactly when
\* the pair has fewer than two common leaves, and then without any rate.
C9_InsufficientCommonLeaves ==
    (pc # "start") =>
        /\ (out.error = "InsufficientCommonLeaves") <=> (NCommon < 2)
        /\ (NCommon < 2) => pc = "error" /\ rates = NoRates /\ EmitsNothing

\* C9 witness: the rate computation refused for a pair with one common leaf.
C9_Witness ==
    /\ out.error = "InsufficientCommonLeaves"
    /\ NCommon = 1

\* C10: when a denominator sum of the pair is zero the rate computation ends
\* with DegenerateDistance: no rate, no copy, no completed tree and no
\* distance; and no rate is ever the result of a division by zero.
C10_DegenerateDistance ==
    /\ (out.error = "DegenerateDistance") <=> (pc = "error" /\ KInRange /\ Degenerate)
    /\ (KInRange /\ Degenerate) =>
          /\ pc \in {"start", "classify", "rates", "error"}
          /\ rates = NoRates /\ ~Copied /\ Len(heap) = 2
          /\ out.kind # "result"
    /\ (out.error = "DegenerateDistance") => EmitsNothing
    /\ (rates # NoRates) =>
          /\ rates.g12[1] > 0 /\ rates.g12[2] > 0
          /\ rates.g21[1] > 0 /\ rates.g21[2] > 0
          /\ \A lc \in cl : /\ rates.l12[lc][1] > 0 /\ rates.l12[lc][2] > 0
                            /\ rates.l21[lc][1] > 0 /\ rates.l21[lc][2] > 0

\* C10 witness: a pair with a valid k skipped because its common leaves are
\* at distance zero from each other in the first tree.
C10_Witness ==
    /\ out.error = "DegenerateDistance"
    /\ \A a \in cl, b \in cl : PathDistance(given[1], a, b) = Zero
    /\ \E a \in cl, b \in cl : PathDistance(given[2], a, b) # Zero

\* C11: BSDCalculator ends with LeafSetMismatch exactly when the leaf sets
\* of its two trees differ, and then gives no distance; on equal leaf sets
\* it gives a distance.
C11_LeafSetMismatch ==
    (pc # "start") =>
        /\ (out.error = "LeafSetMismatch") <=> (Leaves(given[1]) # Leaves(given[2]))
        /\ (Leaves(given[1]) # Leaves(given[2])) =>
              pc = "error" /\ out.kind = "error" /\ EmitsNothing
        /\ (Leaves(given[1]) = Leaves(given[2])) =>
              /\ pc = "measured" /\ out.kind = "result" /\ out.bsd.scale >= 1
              /\ SameValue(out.bsd, SquaredDifferences(given[1], given[2]))

\* C11 witness: BSDCalculator refused for two trees of which the first has
\* only leaves of the second, but not all of them.
C11_Witness ==
    /\ out.error = "LeafSetMismatch"
    /\ Leaves(given[1]) \subseteq Leaves(given[2])
    /\ Leaves(given[1]) # Leaves(given[2])

\* C12: through the orchestrator LeafSetMismatch is never reached: whenever
\* the two working copies are handed to BSDCalculator, after the insertions
\* or after the join, they carry the same leaf set.
C12_MismatchUnreachable ==
    /\ out.error # "LeafSetMismatch"
    /\ Completed => Leaves(heap[c1]) = Leaves(heap[c2])
    /\ pc = "done" => Leaves(out.t1) = Leaves(out.t2)

\* C12 witness: a result for a pair whose trees each have a leaf the other
\* lacks, and common leaves.
C12_Witness ==
    /\ pc = "done" /\ out.kind = "result"
    /\ cl # {}
    /\ Leaves(given[1]) \ Leaves(given[2]) # {}
    /\ Leaves(given[2]) \ Leaves(given[1]) # {}

\* what the pair of line i of the file has to end with, whatever happens to
\* the other pairs
Expected(i) ==
    IF ~batch[1].ok \/ ~batch[i].ok THEN ErrorReport("InvalidNewick")
    ELSE Run(batch[1].tree, batch[i].tree, k)

\* the report r is the outcome e up to node numbers and child order
Reports(r, e) ==
    /\ r.kind = e.kind
    /\ r.error = e.error
    /\ r.bsd = e.bsd
    /\ r.kind = "result" => SameTree(r.t1, e.t1) /\ SameTree(r.t2, e.t2)
    /\ r.kind = "error" => r.t1 = EmptyTree /\ r.t2 = EmptyTree

\* C13: in a file of several trees every pair (first tree, tree of line i)
\* is reported once and in order, a failed pair as its error and a pair that
\* succeeds as its result, each as it would end on its own: a failure
\* neither stops the file nor changes another pair, and when the file is
\* finished there is a report for every pair.
C13_PairScoped ==
    (idx # 0) =>
        /\ 2 <= idx /\ idx <= Len(batch) + 1
        /\ Len(reports) = idx - 2
        /\ \A j \in 1..Len(reports) :
              /\ reports[j].pair = j + 1
              /\ reports[j].out.kind \in {"result", "error"}
        /\ (pc = "idle") => \A j \in 1..Len(reports) : Reports(reports[j].out, Expected(j + 1))
        /\ (pc # "idle") =>
              /\ idx <= Len(batch)
              /\ batch[1].ok /\ batch[idx].ok
              /\ given = <<batch[1].tree, batch[idx].tree>>
        /\ (idx = Len(batch) + 1) => pc = "idle" /\ Len(reports) = Len(batch) - 1

\* C13 witness: a finished file of three trees whose first pair was skipped
\* for a zero denominator and whose second pair has a result.
C13_Witness ==
    /\ idx = 4 /\ Len(batch) = 3 /\ pc = "idle"
    /\ reports[1].out.error = "DegenerateDistance"
    /\ reports[2].out.kind = "result"

\* o is all of a pair's result, for input trees with the leaves S: both
\* completed trees and the distance
WholeResult(o, S) ==
    /\ o.kind = "result" /\ o.error = ""
    /\ ExactLeafSet(o.t1, S) /\ ExactLeafSet(o.t2, S)
    /\ o.bsd.scale >= 1

\* o is an error report and nothing else
BareError(o) ==
    /\ o.kind = "error" /\ o.error # ""
    /\ o.t1 = EmptyTree /\ o.t2 = EmptyTree /\ o.bsd = NoDistance

\* the leaves of the pair of line i of the file
PairLeaves(i) == Leaves(batch[1].tree) \cup Leaves(batch[i].tree)

\* C14: what a pair emits is either both completed trees with the distance
\* or an error report and nothing else, and it is emitted only when the pair
\* ends: no state and no report holds one tree alone, trees without the
\* distance, a partly completed tree, or anything of a pair that failed.
C14_Atomicity ==
    /\ pc \notin {"done", "error"} => out = NoOutput
    /\ pc = "done" => WholeResult(out, Union)
    /\ pc = "error" => BareError(out)
    /\ \A j \in 1..Len(reports) :
          \/ BareError(reports[j].out)
          \/ WholeResult(reports[j].out, PairLeaves(j + 1))

\* C14 witness: in a file, a pair that fails in the rate computation, after
\* its classification, while the pair before it has its result reported.
C14_Witness ==
    /\ pc = "error" /\ out.error = "DegenerateDistance"
    /\ sd1 # {}
    /\ Len(reports) = 1
    /\ reports[1].out.kind = "result"

\* C15: the outcome of a pair is a function of (T1, T2, k): in whatever
\* order the elements of SD are inserted, the pair ends as the run that
\* takes them in ascending order does, with the same completed trees (up to
\* node numbers and child order), the same BSD(+), or the same error.
C15_Determinism ==
    (pc \in {"done", "error"}) => Reports(out, Run(given[1], given[2], k))

\* C15 witness: a finished pair, with a k smaller than the number of common
\* leaves, whose two or more elements of SD(T1) were inserted in another
\* order than the ascending one: the nodes of the completed tree are
\* numbered differently.
C15_Witness ==
    /\ pc = "done"
    /\ Cardinality(sd1) >= 2
    /\ sd2 # {}
    /\ k < Cardinality(cl)
    /\ out.t2 # Run(given[1], given[2], k).t2

RECURSIVE BigSumOver(_, _)
\* the sum of the wide numbers f[x] over the finite set S
BigSumOver(f, S) ==
    IF S = {} THEN <<>>
    ELSE LET x == CHOOSE y \in S : TRUE IN BigAdd(f[x], BigSumOver(f, S \ {x}))

\* the difference of the path distances of the leaves a and b in Ca and Cb
PairDifference(Ca, Cb, a, b) == RSub(PathDistance(Ca, a, b), PathDistance(Cb, a, b))

\* d, a wide number over the scale D, is the sum over the unordered pairs
\* {a, b} of different leaves of S, each counted once, of the squared
\* difference of the path distances of a and b in Ca and Cb
IsSumOfSquares(d, Ca, Cb, S) ==
    LET after(a) == {b \in S : Rank(b) > Rank(a)}
        term(a, b) == LET x == PairDifference(Ca, Cb, a, b)
                      IN BigSquare(x[1] * (d.scale \div x[2]))
    IN /\ d.scale >= 1
       /\ \A a \in S, b \in S : d.scale % PairDifference(Ca, Cb, a, b)[2] = 0
       /\ d.num = BigSumOver([a \in S |-> BigSumOver([b \in after(a) |-> term(a, b)],
                                                       after(a))], S)

\* d is a natural number: digits of the base, the highest not zero
IsNatural(d) ==
    /\ \A i \in 1..Len(d) : 0 <= d[i] /\ d[i] < Base
    /\ d # <<>> => d[Len(d)] # 0

\* C16: the square of BSD(+) of the two completed trees is the sum, over the
\* unordered pairs of different leaves of L(T1) \cup L(T2) counted once, of
\* the squared difference of the pair's path distances in the two trees; it
\* is not negative, and it is zero exactly when the two trees agree on every
\* pairwise leaf distance.
C16_BSDFormula ==
    (pc = "done") =>
        /\ IsSumOfSquares(out.bsd, out.t1, out.t2, Union)
        /\ IsNatural(out.bsd.num)
        /\ (out.bsd.num = <<>>) <=>
              \A a \in Union, b \in Union : PairDifference(out.t1, out.t2, a, b) = Zero

\* C16 witness: a result for completed trees of six leaves that agree on
\* some pairwise distance and differ on another, with a difference that is
\* no whole number.
C16_Witness ==
    /\ pc = "done"
    /\ Cardinality(Union) = 6
    /\ out.bsd.scale > 1
    /\ \E a \in Union, b \in Union : a # b /\ PairDifference(out.t1, out.t2, a, b) = Zero

\* C17: the pruning tool gives exactly one of three outcomes: for equal leaf
\* sets the BSD over all leaf pairs; for overlapping, different leaf sets
\* BSD(-), the same sum over the pairs of common leaves, computed on copies
\* pruned to the common leaves, with nothing rescaled or inserted and the
\* inputs left as they were; for no common leaf no value, only the message.
C17_ToolDispatch ==
    (pc # "start") =>
        LET L1 == Leaves(given[1])
            L2 == Leaves(given[2])
        IN /\ pc = "written"
           /\ out.kind \in {"BSD", "BSD(-)", "message"}
           /\ heap[1] = given[1] /\ heap[2] = given[2]
           /\ (out.kind = "BSD") <=> (L1 = L2)
           /\ (out.kind = "BSD(-)") <=> (L1 # L2 /\ L1 \cap L2 # {})
           /\ (out.kind = "message") <=> (L1 \cap L2 = {})
           /\ (out.kind = "BSD") =>
                 Len(heap) = 2 /\ IsSumOfSquares(out.bsd, given[1], given[2], L1)
           /\ (out.kind = "BSD(-)") =>
                 /\ Len(heap) = 4 /\ c1 = 3 /\ c2 = 4
                 /\ ExactLeafSet(heap[c1], L1 \cap L2)
                 /\ ExactLeafSet(heap[c2], L1 \cap L2)
                 /\ IsSumOfSquares(out.bsd, heap[c1], heap[c2], L1 \cap L2)
                 /\ \A a \in L1 \cap L2, b \in L1 \cap L2 :
                       /\ PathDistance(heap[c1], a, b) = PathDistance(given[1], a, b)
                       /\ PathDistance(heap[c2], a, b) = PathDistance(given[2], a, b)
           /\ (out.kind = "message") => Len(heap) = 2 /\ out.bsd = NoDistance

\* C17 witness: BSD(-) of two trees that share three leaves, where pruning
\* removed an inner node of the first tree and the value is not zero.
C17_Witness ==
    /\ pc = "written"
    /\ out.kind = "BSD(-)"
    /\ Cardinality(cl) = 3
    /\ Len(heap[c1].parent) + 2 < Len(given[1].parent)
    /\ out.bsd.num # <<>>

RECURSIVE Below(_, _)
\* the leaf labels at or below the node n of T, by descent from n
Below(T, n) ==
    IF Children(T, n) = {} THEN {T.label[n]}
    ELSE UNION {Below(T, c) : c \in Children(T, n)}

\* sd, a set of nodes of T, is made of the maximal subtrees of T whose
\* leaves are all outside CL, and of the remaining leaves outside CL
IsMdsPartition(T, CL, sd) ==
    LET DL == Below(T, Root(T)) \ CL
        holdsCommon(n) == Below(T, n) \cap CL # {}
    IN /\ sd \subseteq Nodes(T)
       /\ \A l \in DL : Cardinality({e \in sd : l \in Below(T, e)}) = 1
       /\ \A e \in sd : Below(T, e) \subseteq DL
       /\ \A e \in sd : T.parent[e] = 0 \/ holdsCommon(T.parent[e])
       /\ \A n \in Nodes(T) :
             (/\ Children(T, n) = {}
              /\ T.label[n] \in DL
              /\ T.parent[n] # 0
              /\ holdsCommon(T.parent[n])) => n \in sd

\* C18: once the leaves are classified, SD(T) of either tree partitions
\* DL(T): every distinct leaf is in exactly one element, the leaves of an
\* element are all distinct leaves, every element is maximal (it is the root
\* or its parent's subtree holds a common leaf), and a distinct leaf whose
\* parent's subtree holds a common leaf is an element by itself.
C18_MdsPartition ==
    (cl # {}) =>
        /\ IsMdsPartition(given[1], cl, sd1)
        /\ IsMdsPartition(given[2], cl, sd2)

\* C18 witness: SD of the first tree holds a subtree of several leaves next
\* to a single leaf, and the second tree has distinct leaves too.
C18_Witness ==
    /\ cl # {}
    /\ sd2 # {}
    /\ \E e \in sd1 : Cardinality(Below(given[1], e)) >= 2
    /\ \E e \in sd1 : Children(given[1], e) = {}

\* the leaves under the elements of sd, a set of nodes of T
Covered(T, sd) == UNION {Below(T, e) : e \in sd}

\* C19: once the leaves are classified, CL is the intersection of the two
\* leaf sets and DL(T) is what remains of L(T): CL and the two DL are
\* pairwise disjoint, CL with DL(T) is L(T), and CL with both DL is the
\* union of the leaf sets. In Scenario A, CL = {C, D}, DL(T1) = {A, B} and
\* DL(T2) = {E, F}.
C19_LeafClassification ==
    (pc \in {"rates", "transfer"} \/ cl # {}) =>
        LET L1 == Below(given[1], Root(given[1]))
            L2 == Below(given[2], Root(given[2]))
            DL1 == Covered(given[1], sd1)
            DL2 == Covered(given[2], sd2)
        IN /\ cl = L1 \cap L2
           /\ DL1 = L1 \ cl
           /\ DL2 = L2 \ cl
           /\ cl \cap DL1 = {} /\ cl \cap DL2 = {} /\ DL1 \cap DL2 = {}
           /\ cl \cup DL1 = L1 /\ cl \cup DL2 = L2
           /\ cl \cup DL1 \cup DL2 = L1 \cup L2
           /\ (given = <<TreeS1, TreeS2>>) =>
                 cl = {"C", "D"} /\ DL1 = {"A", "B"} /\ DL2 = {"E", "F"}

\* C19 witness: the two trees of Scenario A, classified.
C19_Witness ==
    /\ given = <<TreeS1, TreeS2>>
    /\ pc = "rates"
    /\ cl = {"C", "D"}
    /\ Covered(given[1], sd1) = {"A", "B"}

RECURSIVE ScaledShape(_, _, _)
\* the subtree of T at n as Shape gives it, every branch length, the one
\* above n included, multiplied by r
ScaledShape(T, n, r) ==
    [label |-> T.label[n], len |-> RMul(T.len[n], r),
     kids |-> {ScaledShape(T, c, r) : c \in Children(T, n)}]

\* C carries the element a of src, its topology kept and each of its branch
\* lengths multiplied by r
Carries(C, src, a, r) ==
    \E m \in Nodes(C) :
        /\ C.len[m] = RMul(src.len[a], r)
        /\ Shape(C, m) = ScaledShape(src, a, r)

\* C20: an element a of SD(T1) that has been moved into the copy of T2 is
\* there with its root or terminal branch multiplied by r(T2, T1), an
\* element b of SD(T2) moved into the copy of T1 with its branch multiplied
\* by r(T1, T2); every branch inside a moved subtree is multiplied by the
\* same rate and the topology of the subtree is unchanged.
C20_TransferRescaling ==
    (Copied /\ cl # {}) =>
        LET s1 == DistanceSum(given[1], cl)
            s2 == DistanceSum(given[2], cl)
        IN /\ \A a \in sd1 \ pend2 : Carries(heap[c2], given[1], a, RDiv(s2, s1))
           /\ \A b \in sd2 \ pend1 : Carries(heap[c1], given[2], b, RDiv(s1, s2))

\* C20 witness: a subtree of two leaves or more has been moved into the
\* copy of T2 and an element into the copy of T1, under rates that are not 1.
C20_Witness ==
    /\ pc = "done"
    /\ cl # {}
    /\ \E a \in sd1 : Cardinality(Below(given[1], a)) >= 2
    /\ sd2 # {}
    /\ DistanceSum(given[1], cl) # DistanceSum(given[2], cl)

\* the point of the copy C at which the element a of src is planted: the
\* position found on the tree the copy was made from, located on the copy
PlantingPoint(C, src, tgt, lrate, a) ==
    LET pos == PositionFinder(src, tgt, cl, lrate, a, k)
    IN Walk(C, pos.node, pos.off)

\* D is C with the branch above q.node split at q.off by one new inner
\* node, the element a of src hung below that node with its lengths
\* multiplied by r, and nothing else changed
SplitAndAttached(C, D, q, src, a, r) ==
    LET n == q.node
        New == Nodes(D) \ Nodes(C)
    IN /\ Len(D.parent) = Len(C.parent) + 1 + Cardinality(SubtreeNodes(src, a))
       /\ \A m \in Nodes(C) : D.label[m] = C.label[m]
       /\ \A m \in Nodes(C) \ {n} : D.parent[m] = C.parent[m] /\ D.len[m] = C.len[m]
       /\ \E s \in New :
             /\ D.label[s] = NoLabel
             /\ D.parent[n] = s
             /\ D.parent[s] = C.parent[n]
             /\ D.len[n] = q.off
             /\ RLt(Zero, D.len[s])
             /\ RAdd(D.len[n], D.len[s]) = C.len[n]
             /\ \E e \in New \ {s} :
                   /\ D.parent[e] = s
                   /\ D.len[e] = RMul(src.len[a], r)
                   /\ Shape(D, e) = ScaledShape(src, a, r)
                   /\ SubtreeNodes(D, e) = New \ {s}
                   /\ Children(D, s) = {n, e}

\* C21: an insertion whose position lies strictly inside a branch of the
\* target copy replaces that branch by two segments whose lengths sum to
\* the length of the branch, creates exactly one new inner node at the
\* split point, hangs the element below that node with its rescaled branch
\* length, and changes no other branch length or parent of the copy.
C21_BranchSplit ==
    [][/\ \A a \in pend2 \ pend2' :
             LET q == PlantingPoint(heap[c2], given[1], given[2], rates.l21, a)
             IN RLt(Zero, q.off) =>
                  SplitAndAttached(heap[c2], heap'[c2], q, given[1], a, rates.g21)
       /\ \A b \in pend1 \ pend1' :
             LET q == PlantingPoint(heap[c1], given[2], given[1], rates.l12, b)
             IN RLt(Zero, q.off) =>
                  SplitAndAttached(heap[c1], heap'[c1], q, given[2], b, rates.g12)]_vars

\* the nodes made by branch splits in the copy C of T: the nodes that T
\* lacks and that have a leaf of T below them
SplitNodes(C, T) ==
    {s \in Nodes(C) \ Nodes(T) : Below(C, s) \cap Below(T, Root(T)) # {}}

\* C21 witness: both copies are complete, a branch of the copy of T2 was
\* split twice (the second split fell on a segment of the first) and a
\* branch of the copy of T1 was split.
C21_Witness ==
    /\ pc = "done"
    /\ cl # {}
    /\ SplitNodes(heap[c1], given[1]) # {}
    /\ \E s \in SplitNodes(heap[c2], given[2]) :
          heap[c2].parent[s] \in SplitNodes(heap[c2], given[2])

\* the node n of the copy C of T lies on the tree as it was before the
\* insertions: it is a node of T or a split node on a branch of T
OnOriginal(C, T, n) == Below(C, n) \cap Below(T, Root(T)) # {}

\* the markers of the element a of src, found on the tree tgt as it was
\* handed in, each located on the copy C of tgt
LocatedMarkers(C, src, tgt, lrate, a) ==
    LET ms == Markers(src, tgt, lrate, KNearest(src, cl, a, k), a)
    IN {Walk(C, ms[i].node, ms[i].off) : i \in 1..Len(ms)}

\* the element a of src hangs in the copy C of T, whole, below a node of
\* the tree as it was before the insertions
HangsOnOriginal(C, T, src, a, r) ==
    \E e \in Nodes(C) \ Nodes(T) :
        /\ Shape(C, e) = ScaledShape(src, a, r)
        /\ OnOriginal(C, T, C.parent[e])

\* C22: whatever has been inserted so far, the markers of an element still
\* to be inserted lie on branches the target had before the insertions
\* began, never on the branch of an inserted element or inside an inserted
\* subtree; so every inserted element hangs below a node of the original
\* topology, whole, and no later insertion falls inside it.
C22_MarkersOnOriginalBranches ==
    (Copied /\ cl # {}) =>
        /\ \A a \in pend2 :
              \A q \in LocatedMarkers(heap[c2], given[1], given[2], rates.l21, a) :
                  OnOriginal(heap[c2], given[2], q.node)
        /\ \A b \in pend1 :
              \A q \in LocatedMarkers(heap[c1], given[2], given[1], rates.l12, b) :
                  OnOriginal(heap[c1], given[1], q.node)
        /\ \A a \in sd1 \ pend2 :
              HangsOnOriginal(heap[c2], given[2], given[1], a, rates.g21)
        /\ \A b \in sd2 \ pend1 :
              HangsOnOriginal(heap[c1], given[1], given[2], b, rates.g12)

\* C22 witness: one element has been inserted into the copy of T2 and
\* another is still to come, one of whose markers lies on a segment of the
\* branch that the first insertion split.
C22_Witness ==
    /\ pc = "insert"
    /\ cl # {}
    /\ sd1 \ pend2 # {}
    /\ \E a \in pend2 :
          \E q \in LocatedMarkers(heap[c2], given[1], given[2], rates.l21, a) :
              \/ q.node \in SplitNodes(heap[c2], given[2])
              \/ heap[c2].parent[q.node] \in SplitNodes(heap[c2], given[2])

\* the sum over the common leaves other than l of their path distance to l
SumFrom(T, l) ==
    LET O == cl \ {l}
    IN RSum([li \in O |-> PathDistance(T, l, li)], O)

\* d_p(l, a): the path from the leaf l to the element a of src without the
\* branch of a, multiplied by the rate of l, target over source
MarkerDistance(src, tgt, l, a) ==
    RMul(RSub(PathLength(src, LeafNode(src, l), a), src.len[a]),
         RDiv(SumFrom(tgt, l), SumFrom(src, l)))

\* the length of the path from the leaf l of T up to the root
LeafDepth(T, l) == PathLength(T, LeafNode(T, l), Root(T))

\* m is the point of T on the path from the leaf l toward the root at the
\* length d from l, or the root when the path is shorter than d
IsMarkerOf(T, m, l, d) ==
    /\ m.node \in Ancestors(T, LeafNode(T, l))
    /\ RLe(Zero, m.off)
    /\ IF m.node = Root(T) THEN m.off = Zero ELSE RLt(m.off, T.len[m.node])
    /\ RAdd(PathLength(T, LeafNode(T, l), m.node), m.off)
          = (IF RLe(d, LeafDepth(T, l)) THEN d ELSE LeafDepth(T, l))

\* the markers of the element a of src on tgt are those of the selected
\* leaves, one for each leaf with a branch above it, each at its distance
MarkersPlaced(src, tgt, lrate, a) ==
    LET sel == KNearest(src, cl, a, k)
        ms == Markers(src, tgt, lrate, sel, a)
    IN /\ 0 <= Len(ms) /\ Len(ms) <= k
       /\ \A i \in 1..Len(ms) :
             \E l \in Range(sel) : IsMarkerOf(tgt, ms[i], l, MarkerDistance(src, tgt, l, a))
       /\ \A l \in Range(sel) :
             IF tgt.parent[LeafNode(tgt, l)] = 0
             THEN \A i \in 1..Len(ms) : LeafNode(tgt, l) \notin SubtreeNodes(tgt, ms[i].node)
             ELSE \E i \in 1..Len(ms) :
                     IsMarkerOf(tgt, ms[i], l, MarkerDistance(src, tgt, l, a))
       /\ Len(ms) = Cardinality({l \in Range(sel) : tgt.parent[LeafNode(tgt, l)] # 0})

OnTree(T, p) ==
    /\ p.node \in Nodes(T)
    /\ RLe(Zero, p.off)
    /\ IF p.node = Root(T) THEN p.off = Zero ELSE RLt(p.off, T.len[p.node])

\* the length of the path between the points p and q of T
PointDistance(T, p, q) ==
    LET up(x, n) == RSub(PathLength(T, x.node, n), x.off)
    IN IF p.node = q.node THEN (IF RLe(p.off, q.off) THEN RSub(q.off, p.off)
                                ELSE RSub(p.off, q.off))
       ELSE IF q.node \in Ancestors(T, p.node) THEN RAdd(up(p, q.node), q.off)
       ELSE IF p.node \in Ancestors(T, q.node) THEN RAdd(up(q, p.node), p.off)
       ELSE LET top == CHOOSE n \in Ancestors(T, p.node) \cap Ancestors(T, q.node) :
                           \A o \in Ancestors(T, p.node) \cap Ancestors(T, q.node) :
                               o \in Ancestors(T, n)
            IN RAdd(up(p, top), up(q, top))

\* m is on the path between p and q, as far from the one as from the other
IsMidpoint(T, m, p, q) ==
    /\ OnTree(T, m)
    /\ PointDistance(T, p, m) = PointDistance(T, m, q)
    /\ RAdd(PointDistance(T, p, m), PointDistance(T, m, q)) = PointDistance(T, p, q)

RECURSIVE ReducesTo(_, _, _, _)
\* replacing the first two points of pts by their midpoint, n times, leaves
\* the single point r
ReducesTo(T, pts, r, n) ==
    IF Len(pts) = 1 THEN n = 0 /\ pts[1] = r
    ELSE LET m == Midpoint(T, pts[1], pts[2])
         IN /\ n > 0
            /\ IsMidpoint(T, m, pts[1], pts[2])
            /\ ReducesTo(T, <<m>> \o Tail(Tail(pts)), r, n - 1)

\* the markers ms belong to leaves of sel taken in the order of their
\* distance d_p, leaves at the same distance in the order of their labels
InCanonicalOrder(src, tgt, sel, ms, a) ==
    \E ord \in [1..Len(ms) -> Range(sel)] :
        /\ \A i \in 1..Len(ms) :
              IsMarkerOf(tgt, ms[i], ord[i], MarkerDistance(src, tgt, ord[i], a))
        /\ \A i \in 1..Len(ms), j \in 1..Len(ms) :
              (i < j) =>
                 LET di == MarkerDistance(src, tgt, ord[i], a)
                     dj == MarkerDistance(src, tgt, ord[j], a)
                 IN RLt(di, dj) \/ (di = dj /\ Rank(ord[i]) < Rank(ord[j]))

\* the position of the element a of src on tgt is the one point left by
\* the reduction of its markers, or of its selected leaves without markers
OnePosition(src, tgt, lrate, a) ==
    LET sel == KNearest(src, cl, a, k)
        ms == Markers(src, tgt, lrate, sel, a)
        pos == PositionFinder(src, tgt, cl, lrate, a, k)
    IN /\ OnTree(tgt, pos)
       /\ Len(ms) >= 1 =>
             /\ InCanonicalOrder(src, tgt, sel, ms, a)
             /\ ReducesTo(tgt, ms, pos, Len(ms) - 1)
       /\ Len(ms) = 0 =>
             ReducesTo(tgt, [i \in 1..Len(sel) |->
                                [node |-> LeafNode(tgt, sel[i]), off |-> Zero]],
                       pos, Len(sel) - 1)

\* the element a of src is in the copy C n times: each of its leaves is on
\* n nodes of C
Planted(C, src, a, n) ==
    \A l \in Below(src, a) : Cardinality(Bearing(C, l)) = n

FromElement(src, l, a) == PathLength(src, LeafNode(src, l), a)

\* the leaf x comes before the leaf y for the element a of src: it is
\* nearer, or as near and earlier in the order of the labels
Nearer(src, a, x, y) ==
    \/ RLt(FromElement(src, x, a), FromElement(src, y, a))
    \/ FromElement(src, x, a) = FromElement(src, y, a) /\ Rank(x) < Rank(y)

\* sel is the one sequence of the k common leaves nearest to a in src
IsKNearest(src, sel, a) ==
    /\ Len(sel) = k
    /\ Range(sel) \subseteq cl
    /\ Cardinality(Range(sel)) = k
    /\ \A i \in 1..k, j \in 1..k : (i < j) => Nearer(src, a, sel[i], sel[j])
    /\ \A x \in Range(sel), y \in cl \ Range(sel) : Nearer(src, a, x, y)
    /\ \A other \in [1..k -> cl] :
          (/\ \A i \in 1..k, j \in 1..k : (i < j) => Nearer(src, a, other[i], other[j])
           /\ \A x \in Range(other), y \in cl \ Range(other) : Nearer(src, a, x, y))
          => other = sel

\* C25: for every element a of SD and valid k, the selected leaves are k
\* different common leaves, those with the smallest distance to a in the
\* source tree, in ascending order of that distance, leaves at the same
\* distance ordered and cut off by the order of the labels; no other
\* sequence qualifies.
C25_KNearest ==
    (Copied /\ cl # {}) =>
        /\ \A a \in sd1 : IsKNearest(given[1], KNearest(given[1], cl, a, k), a)
        /\ \A b \in sd2 : IsKNearest(given[2], KNearest(given[2], cl, b, k), b)

\* C25 witness: an element was inserted for which a common leaf was left
\* out although it is as near as a selected one, and for which the order
\* by distance is not the order of the labels.
C25_Witness ==
    /\ pc = "done"
    /\ \E a \in sd1 :
          LET sel == KNearest(given[1], cl, a, k)
          IN /\ \E x \in Range(sel), y \in cl \ Range(sel) :
                   FromElement(given[1], x, a) = FromElement(given[1], y, a)
             /\ \E i \in 1..k, j \in 1..k : i < j /\ Rank(sel[i]) > Rank(sel[j])

RECURSIVE UpToOriginal(_, _, _)
\* the length in the copy C of T from the node n up to the next node of T
\* above it, through the split nodes between them
UpToOriginal(C, T, n) ==
    IF C.parent[n] = 0 THEN Zero
    ELSE IF C.parent[n] \in Nodes(T) THEN C.len[n]
    ELSE RAdd(C.len[n], UpToOriginal(C, T, C.parent[n]))

RECURSIVE NextOriginal(_, _, _)
\* the next node of T above the node n in the copy C of T, 0 above the root
NextOriginal(C, T, n) ==
    IF C.parent[n] = 0 THEN 0
    ELSE IF C.parent[n] \in Nodes(T) THEN C.parent[n]
    ELSE NextOriginal(C, T, C.parent[n])

\* every branch of T is in the copy C, whole or in segments that sum to
\* its length, between the same two nodes
BranchesKept(C, T) ==
    \A n \in Nodes(T) :
        /\ NextOriginal(C, T, n) = T.parent[n]
        /\ T.parent[n] # 0 => UpToOriginal(C, T, n) = T.len[n]
        /\ \A m \in Nodes(C) : RLe(Zero, C.len[m])

\* the elements of sd still in pend are not in the copy C, the others once
NoneLost(C, src, sd, pend) ==
    /\ \A a \in pend : Planted(C, src, a, 0)
    /\ \A a \in sd \ pend : Planted(C, src, a, 1)

C27_DistanceEngine ==
    (pc = "queried") =>
        LET T == given[1]
            u == out.query[1]
            v == out.query[2]
            present == Below(T, Root(T))
        IN IF u \in present /\ v \in present
           THEN /\ out.error = ""
                /\ out.value = PathDistance(T, u, v)
                /\ (u = v) => out.value = Zero
                /\ out.value = DistanceQuery(T, v, u).value
                /\ RLe(Zero, out.value)
           ELSE /\ out.error = "InvalidLeaf"
                /\ out.value = NoValue

\* C27 witness: the distance of two different leaves that meet below the
\* root, with a branch of more than one segment on the path.
C27_Witness ==
    /\ pc = "queried"
    /\ out.error = ""
    /\ out.query[1] # out.query[2]
    /\ LET T == given[1]
           top == Lca(T, LeafNode(T, out.query[1]), LeafNode(T, out.query[2]))
       IN /\ T.parent[top] # 0
          /\ T.parent[LeafNode(T, out.query[1])] # top
          /\ RLt(Zero, Depth(T, top))

\* r is the sum over the other common leaves of their distance from lc in
\* Ta, divided by the same sum in Tb
IsLeafRate(r, Ta, Tb, lc) ==
    /\ r[2] > 0
    /\ SumFrom(Tb, lc) # Zero
    /\ r[1] * SumFrom(Tb, lc)[1] * SumFrom(Ta, lc)[2]
          = SumFrom(Ta, lc)[1] * SumFrom(Tb, lc)[2] * r[2]

\* C28: once the rates are computed, and until the end of the run, the rate
\* r^(lc)(Ta, Tb) of every common leaf lc, in either direction, is the sum
\* over the other common leaves li of d_Ta(lc, li) divided by the sum of
\* d_Tb(lc, li), taken on the trees as handed in: no insertion changes it.
C28_LeafRates ==
    (pc \in {"transfer", "insert", "done"} /\ cl # {}) =>
        /\ DOMAIN rates.l12 = cl
        /\ DOMAIN rates.l21 = cl
        /\ \A lc \in cl :
              /\ IsLeafRate(rates.l12[lc], given[1], given[2], lc)
              /\ IsLeafRate(rates.l21[lc], given[2], given[1], lc)

\* C28 witness: the end of a run with insertions into both copies, three
\* common leaves or more, and a leaf whose rate is neither 1 nor the rate
\* of the whole tree.
C28_Witness ==
    /\ pc = "done"
    /\ sd1 # {} /\ sd2 # {}
    /\ Cardinality(cl) >= 3
    /\ \E lc \in cl : rates.l12[lc] # One /\ rates.l12[lc] # rates.g12

\* every node of the copy C of T is a node of T, a node made by a branch
\* split for an inserted element, or a node of an inserted element of src
NoMarkerLeft(C, T, src, sd, pend, r) ==
    LET ins == sd \ pend
        New == Nodes(C) \ Nodes(T)
        Split == {s \in New : OnOriginal(C, T, s)}
        Elem == {e \in New : /\ OnOriginal(C, T, C.parent[e])
                              /\ \E a \in ins : Shape(C, e) = ScaledShape(src, a, r)}
    IN /\ \A n \in Nodes(T) : C.label[n] = T.label[n]
       /\ BranchesKept(C, T)
       /\ \A s \in Split :
             /\ C.label[s] = NoLabel
             /\ \E e \in Elem : C.parent[e] = s
             /\ \E n \in Children(C, s) : OnOriginal(C, T, n)
       /\ Cardinality(Split) <= Cardinality(ins)
       /\ Cardinality(Elem) = Cardinality(ins)
       /\ New \ Split = UNION {SubtreeNodes(C, e) : e \in Elem}
       /\ \A n \in Nodes(C) :
             (Children(C, n) = {}) <=> (C.label[n] \in Below(T, Root(T)) \cup Covered(src, ins))

\* C29: no temporary marker is left in a tree: between two insertions and
\* at the end every node, leaf label and branch of a copy stems from the
\* nodes of the tree it was copied from, from a branch split or from a
\* transferred element, and so does every node of the two completed trees.
C29_NoMarkerSurvives ==
    /\ (Copied /\ cl # {}) =>
          /\ NoMarkerLeft(heap[c2], given[2], given[1], sd1, pend2, rates.g21)
          /\ NoMarkerLeft(heap[c1], given[1], given[2], sd2, pend1, rates.g12)
    /\ (pc = "done" /\ cl # {}) =>
          /\ NoMarkerLeft(out.t2, given[2], given[1], sd1, {}, rates.g21)
          /\ NoMarkerLeft(out.t1, given[1], given[2], sd2, {}, rates.g12)

\* C29 witness: between two insertions into the copy of T2, after an
\* insertion that split a branch at a point that was found as the midpoint
\* of three markers.
C29_Witness ==
    /\ pc = "insert"
    /\ k = 3
    /\ pend2 # {} /\ sd1 \ pend2 # {}
    /\ SplitNodes(heap[c2], given[2]) # {}

RECURSIVE ClimbsToRoot(_, _, _)
\* from n the parents lead to a node without parent in at most steps moves
ClimbsToRoot(T, n, steps) ==
    IF T.parent[n] = 0 THEN TRUE
    ELSE IF steps = 0 THEN FALSE
    ELSE ClimbsToRoot(T, T.parent[n], steps - 1)

\* T is a tree: one root, every other node below one parent, no cycle, leaf
\* labels on childless nodes only, each on one node
WellFormed(T) ==
    /\ Len(T.parent) >= 1
    /\ Len(T.len) = Len(T.parent) /\ Len(T.label) = Len(T.parent)
    /\ \A n \in Nodes(T) : T.parent[n] \in Nodes(T) \cup {0} /\ T.parent[n] # n
    /\ Cardinality({n \in Nodes(T) : T.parent[n] = 0}) = 1
    /\ \A n \in Nodes(T) : ClimbsToRoot(T, n, Len(T.parent))
    /\ \A n \in Nodes(T) : T.label[n] # NoLabel => Children(T, n) = {}
    /\ \A n \in Nodes(T), m \in Nodes(T) :
          (n # m /\ T.label[n] # NoLabel) => T.label[n] # T.label[m]

\* C30: in every state every tree, the inputs and the copies, is acyclic
\* with exactly one root, every other node has one parent, a leaf label is
\* on a node without children only, and no tree object is shared: the
\* inputs, the two copies and the emitted trees are objects of their own,
\* and a transfer leaves the tree it takes from as it was.
C30_WellFormed ==
    /\ \A r \in 1..Len(heap) : WellFormed(heap[r])
    /\ heap[1] = given[1] /\ heap[2] = given[2]
    /\ Copied =>
          /\ Cardinality({1, 2, c1, c2}) = 4
          /\ {c1, c2} \subseteq 1..Len(heap)
    /\ (pc = "done") => WellFormed(out.t1) /\ WellFormed(out.t2)

\* C30 witness: a finished pair in which a subtree of several leaves was
\* transferred and branches of both copies were split.
C30_Witness ==
    /\ pc = "done"
    /\ \E a \in sd1 : Cardinality(Below(given[1], a)) >= 2
    /\ SplitNodes(heap[c2], given[2]) # {}
    /\ SplitNodes(heap[c1], given[1]) # {}
====
